---- MODULE Spec2Model ----
(***************************************************************************)
(* Model of the zend server-side call admission and dispatch               *)
(* (zend-worker/src/websocket.rs, websocket_api_handlers.rs) and of the    *)
(* wire types of zend-common (common/zend-common/src/api.rs).              *)
(*                                                                         *)
(* Scheduling: the worker is single-threaded and cooperative.  A task      *)
(* spawned with spawn_local runs from one .await to the next without       *)
(* interruption, so every action below is one such run-to-await segment.   *)
(*                                                                         *)
(* Cryptography: ECDSA (p256) is modelled symbolically.  A signature is    *)
(* the pair (signing key, signed bytes); verification compares both.       *)
(* JSON text is modelled as (encoding, content): serde_json::to_string     *)
(* yields the canonical encoding, other encodings of the same content are  *)
(* different byte strings that parse to the same struct.                   *)
(***************************************************************************)
EXTENDS Integers, Sequences, FiniteSets, TLC

(***************************************************************************)
(* Bounds of the model                                                     *)
(***************************************************************************)
\* number of inbound messages received on the socket (one task each)
MaxTasks == 2
\* number of candidates create_room draws before the model stops following it
MaxAttempts == 2
\* server clock (seconds since the epoch) when the socket is accepted
T0 == 1000

(***************************************************************************)
(* Program constants                                                       *)
(***************************************************************************)
\* api.rs:385  timestamp < now + 10
FutureSlack == 10
\* api.rs:385  timestamp > now - 5 * 60
PastWindow == 5 * 60

(***************************************************************************)
(* u64 arithmetic.  A u64 is four 16-bit limbs, most significant first;    *)
(* addition and subtraction wrap modulo 2^64 (release build, no overflow   *)
(* checks).                                                                *)
(***************************************************************************)
Limb == 2 ^ 16

U64 == [1..4 -> 0..(Limb - 1)]

\* the u64 with the value n, for 0 <= n < 2^31
ToU64(n) == <<0, 0, n \div Limb, n % Limb>>

U64Max == <<Limb - 1, Limb - 1, Limb - 1, Limb - 1>>

\* a + b mod 2^64
U64Add(a, b) ==
    LET s4 == a[4] + b[4]
        s3 == a[3] + b[3] + (s4 \div Limb)
        s2 == a[2] + b[2] + (s3 \div Limb)
        s1 == a[1] + b[1] + (s2 \div Limb)
    IN  <<s1 % Limb, s2 % Limb, s3 % Limb, s4 % Limb>>

\* a - b mod 2^64
U64Sub(a, b) ==
    LET d4 == a[4] - b[4]
        d3 == a[3] - b[3] - (IF d4 < 0 THEN 1 ELSE 0)
        d2 == a[2] - b[2] - (IF d3 < 0 THEN 1 ELSE 0)
        d1 == a[1] - b[1] - (IF d2 < 0 THEN 1 ELSE 0)
    IN  <<(d1 + Limb) % Limb, (d2 + Limb) % Limb,
          (d3 + Limb) % Limb, (d4 + Limb) % Limb>>

\* a < b as unsigned integers
U64Lt(a, b) ==
    \/ a[1] < b[1]
    \/ a[1] = b[1] /\ a[2] < b[2]
    \/ a[1] = b[1] /\ a[2] = b[2] /\ a[3] < b[3]
    \/ a[1] = b[1] /\ a[2] = b[2] /\ a[3] = b[3] /\ a[4] < b[4]

(***************************************************************************)
(* SignedMethodCall::validate_timestamp (api.rs:382-386)                   *)
(*   timestamp < now + 10 && timestamp > now - 5 * 60                      *)
(***************************************************************************)
validate_timestamp(timestamp, now) ==
    /\ U64Lt(timestamp, U64Add(now, ToU64(FutureSlack)))
    /\ U64Lt(U64Sub(now, ToU64(PastWindow)), timestamp)

(***************************************************************************)
(* Identity keys and ECDSA, symbolic.  EcdsaPublicKeyWrapper (api.rs:81-100)*)
(* is a verifying key; the signing key of identity k is known only to k and *)
(* is named by k as well.                                                  *)
(***************************************************************************)
Keys == {"k1", "k2"}

NoKey == "none"

\* ecdsa SigningKey::sign(bytes) (api.rs:313)
Sign(signing_key, bytes) == [signer |-> signing_key, bytes |-> bytes]

\* ecdsa VerifyingKey::verify(bytes, signature) (api.rs:393)
Verify(verifying_key, bytes, signature) ==
    /\ signature.signer = verifying_key
    /\ signature.bytes = bytes

(***************************************************************************)
(* Nonce (api.rs:14-19) and MethodCallContent (api.rs:286-293)             *)
(***************************************************************************)
Methods ==
    {"create_room", "subscribe_to_room", "unsubscribe_from_room",
     "add_privileged_peer", "get_room_data_history", "delete_data",
     "broadcast_data", "unicast_data"}

Nonce(id, timestamp) == [id |-> id, timestamp |-> timestamp]

MethodCallContent(caller_id, nonce, method_name) ==
    [caller_id |-> caller_id, nonce |-> nonce, method_name |-> method_name]

NoContent == MethodCallContent(NoKey, Nonce(0, 0), "none")

(***************************************************************************)
(* JSON text of a MethodCallContent.  Encodings other than "canonical" are *)
(* byte strings serde_json::to_string never produces but from_str accepts  *)
(* (another key order, extra white space); "garbage" does not parse.       *)
(***************************************************************************)
Encodings == {"canonical", "reordered"}

Json(enc, content) == [enc |-> enc, content |-> content]

GarbageJson == Json("garbage", NoContent)

\* serde_json::to_string(&content) (api.rs:347)
to_string(content) == Json("canonical", content)

\* serde_json::from_str::<MethodCallContent>(&json) (api.rs:355)
from_str_ok(json) == json.enc \in Encodings

from_str(json) == json.content

(***************************************************************************)
(* MethodCall (api.rs:337-366): the JSON string is kept next to the parsed *)
(* struct.                                                                 *)
(***************************************************************************)
\* impl TryFrom<MethodCallContent> for MethodCall (api.rs:343-351)
MethodCall_from_content(content) == [json |-> to_string(content), call |-> content]

\* impl TryFrom<String> for MethodCall (api.rs:352-361)
MethodCall_from_string(value_json) == [json |-> value_json, call |-> from_str(value_json)]

\* impl Into<String> for MethodCall (api.rs:362-366)
MethodCall_into_string(method_call) == method_call.json

NoSignature == Sign(NoKey, GarbageJson)

SignedMethodCall(call_id, signed_call, signature) ==
    [call_id |-> call_id, signed_call |-> signed_call, signature |-> signature]

NoSignedCall == SignedMethodCall(0, [json |-> GarbageJson, call |-> NoContent], NoSignature)

\* MethodCallContent::sign (api.rs:305-316)
sign(content, call_id, signing_key) ==
    LET signed_call == MethodCall_from_content(content)
    IN  SignedMethodCall(call_id, signed_call, Sign(signing_key, signed_call.json))

\* verification over a re-serialization of the parsed struct
validate_signature_reserialized(call) ==
    Verify(call.signed_call.call.caller_id, to_string(call.signed_call.call),
           call.signature)

\* SignedMethodCall::validate_signature (api.rs:387-394)
validate_signature(call) ==
    Verify(call.signed_call.call.caller_id, call.signed_call.json, call.signature)

(***************************************************************************)
(* Server-to-client messages (api.rs:458-574)                              *)
(***************************************************************************)
NoMessage == "none"

\* MethodCallError (api.rs:491-495); message is Option<String>
MethodCallError(error_id, message) == [error_id |-> error_id, message |-> message]

NoError == MethodCallError("none", NoMessage)

\* ErrorId::with_default_message (api.rs:472-488)
with_default_message(error_id) ==
    LET message ==
            CASE error_id = "internal_error" -> "An unexpected internal error occured."
              [] error_id = "invalid_signature" -> "The request was not signed correctly."
              [] error_id = "parse_error" -> "The request could not be parsed."
    IN  IF message = "" THEN MethodCallError(error_id, NoMessage)
        ELSE MethodCallError(error_id, message)

\* MethodCallError::internal (api.rs:501-505)
internal == with_default_message("internal_error")

\* MethodCallSuccess (api.rs:445-456): Ack, CreateRoom{room_id}, SubscribeToRoom{subscription_id}
MethodCallSuccess(kind, room_id, subscription_id) ==
    [kind |-> kind, room_id |-> room_id, subscription_id |-> subscription_id]

NoRoom == "none"

Ack == MethodCallSuccess("ack", NoRoom, 0)

CreateRoomSuccess(room_id) == MethodCallSuccess("create_room", room_id, 0)

SubscribeSuccess(subscription_id) == MethodCallSuccess("subscribe_to_room", NoRoom, subscription_id)

NoSuccess == MethodCallSuccess("none", NoRoom, 0)

\* ServerToClientMessage (api.rs:537-546) with its MethodCallReturn (api.rs:516-521)
ServerToClientMessage(message_type, call_id, return_type, success, error, text) ==
    [message_type |-> message_type, call_id |-> call_id, return_type |-> return_type,
     success |-> success, error |-> error, text |-> text]

\* ServerToClientMessage::pong (api.rs:548-550)
pong == ServerToClientMessage("pong", 0, "none", NoSuccess, NoError, NoMessage)

\* ServerToClientMessage::info (api.rs:571-573)
info(text) == ServerToClientMessage("info", 0, "none", NoSuccess, NoError, text)

\* ServerToClientMessage::call_error (api.rs:551-557)
call_error(call_id, error_id, message) ==
    ServerToClientMessage("method_call_return", call_id, "error", NoSuccess,
                          MethodCallError(error_id, message), NoMessage)

\* ServerToClientMessage::from_error (api.rs:558-564)
from_error(call_id, error) ==
    ServerToClientMessage("method_call_return", call_id, "error", NoSuccess, error, NoMessage)

\* ServerToClientMessage::from_success (api.rs:565-570)
from_success(call_id, data) ==
    ServerToClientMessage("method_call_return", call_id, "success", data, NoError, NoMessage)

(***************************************************************************)
(* Client-to-server text frames.  A frame is the JSON object               *)
(*   {message_type, message_content};                                      *)
(* message_content is absent ("none"), a bare integer ("int") or an object *)
(* ("object") with an optional call_id, a signed_call string and a         *)
(* signature string.                                                       *)
(***************************************************************************)
Frame(message_type, shape, has_call_id, call_id, signed_call, signature) ==
    [message_type |-> message_type,
     message_content |->
        [shape |-> shape, has_call_id |-> has_call_id, call_id |-> call_id,
         signed_call |-> signed_call, signature |-> signature]]

\* text that is no JSON, or JSON with an unknown message_type
GarbageFrame == Frame("garbage", "none", FALSE, 0, GarbageJson, NoSignature)

PingFrame == Frame("ping", "none", FALSE, 0, GarbageJson, NoSignature)

\* {"message_type":"signed_method_call","message_content":<call_id>}
BareIdFrame(call_id) ==
    Frame("signed_method_call", "int", FALSE, call_id, GarbageJson, NoSignature)

\* a signed_method_call object with a readable call_id whose other fields do not parse
BrokenCallFrame(call_id) ==
    Frame("signed_method_call", "object", TRUE, call_id, GarbageJson, NoSignature)

\* serde_json::to_string(&ClientToServerMessage::from(signed_call)) (api.rs:429-433)
CallFrame(call) ==
    Frame("signed_method_call", "object", TRUE, call.call_id,
          MethodCall_into_string(call.signed_call), call.signature)

\* Deserialize for SignedMethodCall (api.rs:375-380)
SignedMethodCall_parse_ok(content) ==
    /\ content.shape = "object"
    /\ content.has_call_id
    /\ from_str_ok(content.signed_call)
    /\ content.signature # NoSignature

SignedMethodCall_parse(content) ==
    SignedMethodCall(content.call_id, MethodCall_from_string(content.signed_call),
                     content.signature)

ParsedMessage(ok, kind, call_id, call) ==
    [ok |-> ok, kind |-> kind, call_id |-> call_id, call |-> call]

\* #[serde(untagged)] enum SignedMethodCallOrPartial { Full(SignedMethodCall), Partial(u64) }
\* (api.rs:397-403): the variants are tried in order, Partial matches a bare integer only
SignedMethodCallOrPartial(content) ==
    IF SignedMethodCall_parse_ok(content)
    THEN ParsedMessage(TRUE, "full", content.call_id, SignedMethodCall_parse(content))
    ELSE IF content.shape = "int"
    THEN ParsedMessage(TRUE, "partial", content.call_id, NoSignedCall)
    ELSE ParsedMessage(FALSE, "none", 0, NoSignedCall)

\* serde_json::from_str::<api::ClientToServerMessage>(&text) (api.rs:422-428)
ClientToServerMessage(text) ==
    CASE text.message_type = "ping" -> ParsedMessage(TRUE, "ping", 0, NoSignedCall)
      [] text.message_type = "signed_method_call" ->
            SignedMethodCallOrPartial(text.message_content)
      [] OTHER -> ParsedMessage(FALSE, "none", 0, NoSignedCall)

(***************************************************************************)
(* Admission (websocket.rs:49-86)                                          *)
(***************************************************************************)
\* answers of a collaborator RPC as the worker sees them
PeerAnswers == {"true", "false", "nonbool", "failed"}

\* check_signed_method_call up to its first .await (websocket.rs:53-61):
\* the cause of the early return, or "ask_peer"
check_before_peer_no_timestamp(call, current_time_secs) ==
    IF ~ validate_signature(call) THEN "bad_signature" ELSE "ask_peer"

\* a check that asks the Peer whatever the signature is
check_before_peer_no_signature(call, current_time_secs) ==
    IF ~ validate_timestamp(ToU64(call.signed_call.call.nonce.timestamp),
                            ToU64(current_time_secs))
    THEN "timestamp"
    ELSE "ask_peer"

check_before_peer(call, current_time_secs) ==
    IF ~ validate_signature(call) THEN "bad_signature"
    ELSE IF ~ validate_timestamp(ToU64(call.signed_call.call.nonce.timestamp),
                                 ToU64(current_time_secs))
    THEN "timestamp"
    ELSE "ask_peer"

\* check_signed_method_call after the Peer answered (websocket.rs:73-85):
\* the cause of the Err, or "admitted"
check_after_peer_ignore_used(answer) ==
    CASE answer = "failed" -> "peer_fault"
      [] answer = "nonbool" -> "peer_fault"
      [] OTHER -> "admitted"

check_after_peer(answer) ==
    CASE answer = "failed" -> "peer_fault"
      [] answer = "nonbool" -> "peer_fault"
      [] answer = "true" -> "nonce_used"
      [] answer = "false" -> "admitted"

\* a reply that tells the cause
rejection_reply_with_cause(call_id, cause) ==
    call_error(call_id, "invalid_signature", cause)

\* handle_signed_method_call, the reply to a failed check (websocket.rs:93-101)
rejection_reply(call_id, cause) ==
    call_error(call_id, "invalid_signature", NoMessage)

(***************************************************************************)
(* Handler results (websocket_api_handlers.rs:33-38) and the reply built   *)
(* from them (websocket.rs:121-135)                                        *)
(***************************************************************************)
HandlerResult(tag, success, error, detail) ==
    [tag |-> tag, success |-> success, error |-> error, detail |-> detail]

Ok(success) == HandlerResult("Ok", success, NoError, NoMessage)

WorkerError(detail) == HandlerResult("WorkerError", NoSuccess, NoError, detail)

MethodError(error) == HandlerResult("MethodError", NoSuccess, error, NoMessage)

NoResult == HandlerResult("none", NoSuccess, NoError, NoMessage)

\* a reply that exposes the fault
result_reply_leaky(call_id, result) ==
    CASE result.tag = "Ok" -> from_success(call_id, result.success)
      [] result.tag = "WorkerError" ->
            from_error(call_id, MethodCallError("internal_error", result.detail))
      [] result.tag = "MethodError" -> from_error(call_id, result.error)

\* handle_signed_method_call, `let to_send = match result` (websocket.rs:121-135)
result_reply(call_id, result) ==
    CASE result.tag = "Ok" -> from_success(call_id, result.success)
      [] result.tag = "WorkerError" ->
            from_error(call_id, with_default_message("internal_error"))
      [] result.tag = "MethodError" -> from_error(call_id, result.error)

\* handle_message, the reply to a text that does not parse (websocket.rs:168-173)
parse_failure_reply_none == <<>>

parse_failure_reply == <<info("A message failed to be parsed.")>>

\* handle_parsed_message, the reply to Partial(call_id) (websocket.rs:151-156)
partial_reply(call_id) == from_error(call_id, with_default_message("parse_error"))

(***************************************************************************)
(* Dispatch (websocket.rs:107-120): the handler chosen for a method and    *)
(* how the handler starts                                                  *)
(***************************************************************************)
\* handlers whose body is todo!() (websocket_api_handlers.rs:175-177, 197-202, 222-224)
TodoHandlers ==
    {"unsubscribe_from_room", "get_room_data_history", "delete_data", "unicast_data"}

\* handlers that post one request to the Room actor and answer Ack
\* (websocket_api_handlers.rs:179-195, 204-220)
AckHandlers == {"add_privileged_peer", "broadcast_data"}

\* `match variant_args` (websocket.rs:107-120)
handler_of(method_name) == method_name

(***************************************************************************)
(* The collaborators.  The Peer actor keyed by a caller's key keeps the    *)
(* nonces it has seen; the Room actor keyed by a room id is initialised or *)
(* not.  Both are external: only their contract is modelled.               *)
(***************************************************************************)
RoomIds == {"AAAAAA", "AAAAAB"}

\* rooms created before this connection
ExistingRooms == {"AAAAAA"}

\* Peer actor, check_nonce_is_used: the answer, recorded atomically with the check
check_nonce_is_used(seen, nonce) == IF nonce \in seen THEN "true" ELSE "false"

\* Room actor, initialise: "true" exactly when the room was absent
initialise(initialised, room_id) == IF room_id \in initialised THEN "false" ELSE "true"

\* what the Room actor's answer to `subscribe` looks like to subscribe_to_room
\* (websocket_api_handlers.rs:136-148)
SubscribeAnswers == {"failed", "no_header", "bad_header", "subscribed"}

\* outcomes of drawing a candidate (websocket_api_handlers.rs:51-53)
Draws == RoomIds \cup {"entropy_failed"}

(***************************************************************************)
(* State                                                                   *)
(***************************************************************************)
VARIABLES
    now,        \* w::Date::now() in seconds
    socket,     \* "open" while handle_ws_server's loop runs, then "closed"
    tasks,      \* the tasks spawned by handle_ws_server, in order of arrival
    sent,       \* per task, the messages it handed to the socket, in order
    ledger,     \* Peer actors: caller key -> nonces seen
    rooms,      \* Room actors: the initialised room ids
    probe       \* the pure function under test, its inputs and its result

\* the variables of the worker and of the pure-function probes
server_vars == <<now, socket, tasks, sent, ledger, rooms, probe>>

\* The client-side connection manager, WsApiClient (zend-leptos wsclient.rs)
VARIABLES
    ws,                          \* WsApiClientInner.ws, the WsRefCellWrap with its WebSocketWrap
    ws_state,                    \* WsApiClientInner.ws_state
    event_subscriptions,         \* WsApiClientInner.event_subscriptions, the registry
    next_event_subscription_id,  \* WsApiClientInner.next_event_subscription_id
    clones,                      \* WsApiClientInner.clones
    channels,                    \* the mpsc channel of every subscription made so far
    dispatcher,                  \* where the event handler task is suspended
    observed                     \* what has happened on the connection so far

client_vars == <<ws, ws_state, event_subscriptions, next_event_subscription_id,
                 clones, channels, dispatcher, observed>>

vars == <<now, socket, tasks, sent, ledger, rooms, probe,
          ws, ws_state, event_subscriptions, next_event_subscription_id,
          clones, channels, dispatcher, observed>>

\* WebSocketWrap::new (wsclient.rs:547-555)
WebSocketWrap_new == [finished |-> FALSE, ws |-> "none", retry_after |-> 0]

\* WsRefCellWrap::new (wsclient.rs:624-632); end_channel is the number of
\* end signals queued in the channel
WsRefCellWrap_new ==
    [ws_wrap |-> WebSocketWrap_new, ws_copy |-> "none", ended |-> FALSE, end_channel |-> 0]

\* nothing has happened yet: no event classified, no connect attempt made.
\* classified: the events handle_event made of what the socket gave, in order;
\* delays: the delay waited before each connect attempt since the last
\* successful connect; connects, frames, closes: how many connects succeeded,
\* frames arrived and streams ended; last_close: how the last stream ended;
\* visited: the ids of the subscriptions the last dispatch pass evaluated
NothingObserved ==
    [classified |-> <<>>, delays |-> <<>>, connects |-> 0, frames |-> 0,
     closes |-> 0, last_close |-> "none", visited |-> <<>>]

\* WsApiClient::new (wsclient.rs:147-206), before its spawned tasks first run
WsApiClient_new ==
    /\ ws = WsRefCellWrap_new
    /\ ws_state = "Reconnecting"
    /\ event_subscriptions = <<>>
    /\ next_event_subscription_id = 0
    /\ clones = 1
    /\ channels = <<>>
    /\ dispatcher = "start"
    /\ observed = NothingObserved


\* the probe of a behaviour that tests no pure function
NoProbe == [fn |-> "none"]

\* one task of handle_message: the text it was spawned with, where it is
\* suspended, and what it has done so far (the cause of a rejection, the
\* Peer's answer, the handler started, the requests posted to Room actors,
\* create_room's current candidate, the handler's result)
Task(text, pc, cause, peer_answer, handler, room_requests, candidate, result) ==
    [text |-> text, pc |-> pc, cause |-> cause,
     peer_answer |-> peer_answer, handler |-> handler,
     room_requests |-> room_requests, candidate |-> candidate, result |-> result]

Finished(text, cause) ==
    Task(text, "done", cause, "none", "none", 0, NoRoom, NoResult)

ParsedOf(task) == ClientToServerMessage(task.text)

CallOf(task) == ParsedOf(task).call

ContentOf(task) == CallOf(task).signed_call.call

\* WebSocketExt::nfsendj (websocket.rs:17-25): a failed send is only logged
nfsendj(sock, messages) == IF sock = "open" THEN messages ELSE <<>>

(***************************************************************************)
(* The frames a client may send as its n-th message.  call_id is the       *)
(* client's per-connection counter.                                        *)
(***************************************************************************)
\* nonce timestamps: the last stale second, the first fresh one, and the
\* first one too far in the future, for a server clock at T0
Timestamps == {T0 - PastWindow, T0 - PastWindow + 1, T0 + FutureSlack}

\* the method of the calls that vary caller, signer and timestamp
AdmissionMethod == "broadcast_data"

\* calls of one method by every caller, signed by every key, with every timestamp
AdmissionCalls(call_id) ==
    {sign(MethodCallContent(caller, Nonce(0, ts), AdmissionMethod), call_id, signer) :
        caller \in Keys, signer \in Keys, ts \in Timestamps}

\* correctly signed fresh calls of every method
DispatchCalls(call_id) ==
    {sign(MethodCallContent("k1", Nonce(0, T0 - PastWindow + 1), m), call_id, "k1") :
        m \in Methods}

InboundCalls(call_id) == AdmissionCalls(call_id) \cup DispatchCalls(call_id)

InboundFrames(call_id) ==
    {GarbageFrame, PingFrame, BareIdFrame(call_id), BrokenCallFrame(call_id)}
        \cup {CallFrame(call) : call \in InboundCalls(call_id)}

Init ==
    /\ now = T0
    /\ socket = "open"
    /\ tasks = <<>>
    /\ sent = <<>>
    /\ ledger = [k \in Keys |-> {}]
    /\ rooms = ExistingRooms
    /\ WsApiClient_new
    /\ probe = NoProbe

(***************************************************************************)
(* handle_ws_server receives a text frame and spawns handle_message        *)
(* (websocket.rs:189-215).  The spawned task runs to its first .await      *)
(* before the loop takes the next event: handle_message (164-175),         *)
(* handle_parsed_message (140-162), and for a full call                    *)
(* handle_signed_method_call with check_signed_method_call up to the       *)
(* request to the Peer actor (49-79, 88-101).                              *)
(***************************************************************************)
Receive(text) ==
    /\ socket = "open"
    /\ Len(tasks) < MaxTasks
    /\ LET message == ClientToServerMessage(text)
           check == check_before_peer(message.call, now)
       IN  CASE ~ message.ok ->
                    /\ tasks' = Append(tasks, Finished(text, "none"))
                    /\ sent' = Append(sent, nfsendj(socket, parse_failure_reply))
             [] message.ok /\ message.kind = "ping" ->
                    /\ tasks' = Append(tasks, Finished(text, "none"))
                    /\ sent' = Append(sent, nfsendj(socket, <<pong>>))
             [] message.ok /\ message.kind = "partial" ->
                    /\ tasks' = Append(tasks, Finished(text, "none"))
                    /\ sent' = Append(sent, nfsendj(socket, <<partial_reply(message.call_id)>>))
             [] message.ok /\ message.kind = "full" /\ check # "ask_peer" ->
                    /\ tasks' = Append(tasks, Finished(text, check))
                    /\ sent' = Append(sent, nfsendj(socket,
                                       <<rejection_reply(message.call.call_id, check)>>))
             [] message.ok /\ message.kind = "full" /\ check = "ask_peer" ->
                    /\ tasks' = Append(tasks,
                            Task(text, "await_peer", "none", "none", "none", 0, NoRoom, NoResult))
                    /\ sent' = Append(sent, <<>>)
    /\ UNCHANGED <<now, socket, ledger, rooms, probe>>
    /\ UNCHANGED client_vars

(***************************************************************************)
(* The start of a handler, up to its first .await or its return.           *)
(*   todo!() handlers panic; create_room draws a candidate and posts       *)
(*   `initialise` (websocket_api_handlers.rs:49-59); the others post one   *)
(*   request (131-136, 185-193, 210-218).                                  *)
(***************************************************************************)
\* the task after the handler started, and the handler's result if it returned
Started(task, draw) ==
    LET h == handler_of(ContentOf(task).method_name)
    IN  CASE h \in TodoHandlers ->
                [task |-> [task EXCEPT !.pc = "panicked", !.handler = h],
                 result |-> NoResult]
          [] h = "create_room" /\ draw = "entropy_failed" ->
                [task |-> [task EXCEPT !.pc = "done", !.handler = h],
                 result |-> MethodError(with_default_message("internal_error"))]
          [] h = "create_room" /\ draw # "entropy_failed" ->
                [task |-> [task EXCEPT !.pc = "await_room", !.handler = h,
                                       !.room_requests = 1, !.candidate = draw],
                 result |-> NoResult]
          [] OTHER ->
                [task |-> [task EXCEPT !.pc = "await_room", !.handler = h,
                                       !.room_requests = 1],
                 result |-> NoResult]

\* the draws that matter to a method: only create_room draws
DrawsOf(method_name) == IF method_name = "create_room" THEN Draws ELSE {NoRoom}

(***************************************************************************)
(* The Peer actor answers (websocket.rs:73-85); on Err the call is         *)
(* rejected (93-101), otherwise the handler is started (103-120).          *)
(***************************************************************************)
PeerResponds(t, answer, draw) ==
    /\ t \in 1..Len(tasks)
    /\ tasks[t].pc = "await_peer"
    /\ socket = "open"
    /\ LET content == ContentOf(tasks[t])
           seen == ledger[content.caller_id]
           outcome == check_after_peer(answer)
           answered == [tasks[t] EXCEPT !.peer_answer = answer]
           started == Started(answered, draw)
       IN  /\ answer \in {"true", "false"} => answer = check_nonce_is_used(seen, content.nonce)
           /\ ledger' = IF answer \in {"true", "false"}
                        THEN [ledger EXCEPT ![content.caller_id] = seen \cup {content.nonce}]
                        ELSE ledger
           /\ draw \in (IF outcome = "admitted" THEN DrawsOf(content.method_name) ELSE {NoRoom})
           /\ IF outcome # "admitted"
              THEN /\ tasks' = [tasks EXCEPT ![t] = [answered EXCEPT !.pc = "done",
                                                                     !.cause = outcome]]
                   /\ sent' = [sent EXCEPT ![t] = @ \o nfsendj(socket,
                                      <<rejection_reply(CallOf(tasks[t]).call_id, outcome)>>)]
              ELSE /\ tasks' = [tasks EXCEPT ![t] = [started.task EXCEPT !.result = started.result]]
                   /\ sent' = IF started.result # NoResult
                              THEN [sent EXCEPT ![t] = @ \o nfsendj(socket,
                                     <<result_reply(CallOf(tasks[t]).call_id, started.result)>>)]
                              ELSE sent
    /\ UNCHANGED <<now, socket, rooms, probe>>
    /\ UNCHANGED client_vars

(***************************************************************************)
(* The continuation of a handler after the Room actor answered.            *)
(*   pc "overflow": `?` on a serde_json::Error calls                       *)
(*   From<serde_json::Error> for Error, whose body `value.into()` calls    *)
(*   itself (websocket_api_handlers.rs:39-43): the stack overflows.        *)
(*   A task at pc "panicked" or "overflow" takes no further step.  The     *)
(*   other tasks are left free to continue, which covers a runtime that    *)
(*   keeps serving as well as one that stops with the failed task.         *)
(***************************************************************************)
\* a create_room that accepts its candidate whatever the Room actor answers
create_room_resumed_accepts_existing(task, answer, draw) ==
    CASE answer = "failed" ->
            [task |-> [task EXCEPT !.pc = "done"], result |-> WorkerError("fetch failed")]
      [] answer = "nonbool" ->
            [task |-> [task EXCEPT !.pc = "overflow"], result |-> NoResult]
      [] OTHER ->
            [task |-> [task EXCEPT !.pc = "done"],
             result |-> Ok(CreateRoomSuccess(task.candidate))]

\* create_room after the answer to `initialise` (websocket_api_handlers.rs:59-65)
create_room_resumed(task, answer, draw) ==
    CASE answer = "failed" ->
            [task |-> [task EXCEPT !.pc = "done"], result |-> WorkerError("fetch failed")]
      [] answer = "nonbool" ->
            [task |-> [task EXCEPT !.pc = "overflow"], result |-> NoResult]
      [] answer = "true" ->
            [task |-> [task EXCEPT !.pc = "done"],
             result |-> Ok(CreateRoomSuccess(task.candidate))]
      [] answer = "false" /\ draw = "entropy_failed" ->
            [task |-> [task EXCEPT !.pc = "done"],
             result |-> MethodError(with_default_message("internal_error"))]
      [] answer = "false" /\ draw # "entropy_failed" ->
            [task |-> [task EXCEPT !.room_requests = @ + 1, !.candidate = draw],
             result |-> NoResult]

\* add_privileged_peer and broadcast_data after the answer
\* (websocket_api_handlers.rs:193-194, 218-219)
ack_resumed(task, answer) ==
    IF answer = "failed"
    THEN [task |-> [task EXCEPT !.pc = "done"], result |-> WorkerError("fetch failed")]
    ELSE [task |-> [task EXCEPT !.pc = "done"], result |-> Ok(Ack)]

\* subscribe_to_room after the answer (websocket_api_handlers.rs:136-172)
subscribe_to_room_resumed(task, answer) ==
    CASE answer = "failed" ->
            [task |-> [task EXCEPT !.pc = "done"], result |-> WorkerError("fetch failed")]
      [] answer \in {"no_header", "bad_header"} ->
            [task |-> [task EXCEPT !.pc = "done"], result |-> MethodError(internal)]
      [] answer = "subscribed" ->
            [task |-> [task EXCEPT !.pc = "done"], result |-> Ok(SubscribeSuccess(1))]

\* the answers the Room actor can give to the request a task is waiting on
RoomAnswersOf(task) ==
    CASE task.handler = "create_room" ->
            {"failed", "nonbool", initialise(rooms, task.candidate)}
      [] task.handler = "subscribe_to_room" -> SubscribeAnswers
      [] OTHER -> {"failed", "nonbool", "true", "false"}

\* attempts_limit: the number of candidates after which the model stops
\* following create_room's loop (the loop itself has no limit)
RoomRespondsWithin(t, answer, draw, attempts_limit) ==
    /\ t \in 1..Len(tasks)
    /\ tasks[t].pc = "await_room"
    /\ socket = "open"
    /\ answer \in RoomAnswersOf(tasks[t])
    /\ LET task == tasks[t]
           redraws == task.handler = "create_room" /\ answer = "false"
           resumed ==
                CASE task.handler = "create_room" -> create_room_resumed(task, answer, draw)
                  [] task.handler = "subscribe_to_room" ->
                        subscribe_to_room_resumed(task, answer)
                  [] OTHER -> ack_resumed(task, answer)
       IN  /\ draw \in (IF redraws THEN Draws ELSE {NoRoom})
           /\ redraws /\ draw # "entropy_failed" => task.room_requests < attempts_limit
           /\ rooms' = IF task.handler = "create_room" /\ answer \in {"true", "false"}
                       THEN rooms \cup {task.candidate}
                       ELSE rooms
           /\ tasks' = [tasks EXCEPT ![t] = [resumed.task EXCEPT !.result = resumed.result]]
           /\ sent' = IF resumed.result # NoResult
                      THEN [sent EXCEPT ![t] = @ \o nfsendj(socket,
                                   <<result_reply(CallOf(task).call_id, resumed.result)>>)]
                      ELSE sent
    /\ UNCHANGED <<now, socket, ledger, probe>>
    /\ UNCHANGED client_vars

RoomResponds(t, answer, draw) == RoomRespondsWithin(t, answer, draw, MaxAttempts)

\* handle_ws_server leaves its loop on a Close event or a stream error
\* (websocket.rs:190-205).  The model follows a connection until then: what
\* the tasks still running do afterwards no longer reaches the client.
WsClose ==
    /\ socket = "open"
    /\ socket' = "closed"
    /\ UNCHANGED <<now, tasks, sent, ledger, rooms, probe>>
    /\ UNCHANGED client_vars

Next ==
    \/ \E text \in InboundFrames(Len(tasks) + 1) : Receive(text)
    \/ \E t \in 1..Len(tasks), answer \in PeerAnswers, draw \in Draws \cup {NoRoom} :
            PeerResponds(t, answer, draw)
    \/ \E t \in 1..Len(tasks), answer \in PeerAnswers \cup SubscribeAnswers,
          draw \in Draws \cup {NoRoom} :
            RoomResponds(t, answer, draw)
    \/ WsClose

Spec == Init /\ [][Next]_vars

(***************************************************************************)
(* Vocabulary of the properties                                            *)
(***************************************************************************)
TaskIds == 1..Len(tasks)

\* the task was spawned with a signed method call that parsed fully
IsCall(t) == ParsedOf(tasks[t]).ok /\ ParsedOf(tasks[t]).kind = "full"

\* a handler was started for the task's call
Dispatched(t) == tasks[t].handler # "none"

\* the task will take no further step
Ended(t) == tasks[t].pc \in {"done", "panicked", "overflow"}

\* the signature was made with the caller's own key over the stored JSON bytes
SignedByCaller(call) ==
    call.signature = Sign(call.signed_call.call.caller_id, call.signed_call.json)

\* now - 300 < timestamp < now + 10 over the integers
InWindow(timestamp, current_time_secs) ==
    /\ current_time_secs - PastWindow < timestamp
    /\ timestamp < current_time_secs + FutureSlack

\* the MethodCallReturn messages among the messages a task sent
ReturnsOf(t) == SelectSeq(sent[t], LAMBDA m : m.message_type = "method_call_return")

\* C1: a handler runs, and a Room actor is contacted, only for a call whose
\* signature validates, whose nonce timestamp is inside the freshness window
\* at the server's current time and whose nonce the caller's Peer actor
\* reported (and recorded) as not used before; a call failing any of the
\* three has no handler and no Room request.
C1_DispatchOnlyIfAdmitted ==
    \A t \in TaskIds :
        LET call == CallOf(tasks[t])
            content == call.signed_call.call
            admitted ==
                /\ IsCall(t)
                /\ SignedByCaller(call)
                /\ InWindow(content.nonce.timestamp, now)
                /\ tasks[t].peer_answer = "false"
                /\ content.nonce \in ledger[content.caller_id]
        IN  /\ (Dispatched(t) \/ tasks[t].room_requests > 0) => admitted
            /\ (Ended(t) /\ ~ admitted) => (~ Dispatched(t) /\ tasks[t].room_requests = 0)

\* C1 witness: one call has been dispatched and has contacted a Room actor,
\* another one was rejected for its timestamp.
C1_Witness ==
    \E t1, t2 \in TaskIds :
        /\ Dispatched(t1) /\ tasks[t1].room_requests > 0
        /\ IsCall(t2) /\ tasks[t2].cause = "timestamp" /\ ~ Dispatched(t2)

\* C2: no two calls with the same caller_id and the same nonce are both
\* dispatched to a handler.
C2_NoReplay ==
    \A t1, t2 \in TaskIds :
        (t1 # t2 /\ Dispatched(t1) /\ Dispatched(t2)) =>
            <<ContentOf(tasks[t1]).caller_id, ContentOf(tasks[t1]).nonce>>
                # <<ContentOf(tasks[t2]).caller_id, ContentOf(tasks[t2]).nonce>>

\* C2 witness: two correctly signed, fresh calls with the same caller and
\* nonce were received; one was dispatched, the other rejected as a replay.
C2_Witness ==
    \E t1, t2 \in TaskIds :
        /\ t1 # t2
        /\ IsCall(t1) /\ IsCall(t2)
        /\ ContentOf(tasks[t1]).caller_id = ContentOf(tasks[t2]).caller_id
        /\ ContentOf(tasks[t1]).nonce = ContentOf(tasks[t2]).nonce
        /\ Dispatched(t1)
        /\ tasks[t2].cause = "nonce_used" /\ ~ Dispatched(t2)

\* the causes a call is rejected for
RejectionCauses == {"bad_signature", "timestamp", "nonce_used"}

\* C5: whatever the cause of a rejection (bad signature, timestamp outside
\* the window, nonce already used), the client is sent one MethodCallReturn
\* with the call's call_id, error_id InvalidSignature and no message; the
\* replies to two calls rejected for different causes differ in nothing but
\* the call_id.
C5_RejectionReplyHidesCause ==
    /\ \A t \in TaskIds :
          tasks[t].cause \in RejectionCauses =>
             sent[t] = <<[message_type |-> "method_call_return",
                          call_id |-> tasks[t].text.message_content.call_id,
                          return_type |-> "error",
                          success |-> NoSuccess,
                          error |-> [error_id |-> "invalid_signature", message |-> NoMessage],
                          text |-> NoMessage]>>
    /\ \A t1, t2 \in TaskIds :
          (tasks[t1].cause \in RejectionCauses /\ tasks[t2].cause \in RejectionCauses) =>
             [i \in 1..Len(sent[t1]) |-> [sent[t1][i] EXCEPT !.call_id = 0]]
                = [i \in 1..Len(sent[t2]) |-> [sent[t2][i] EXCEPT !.call_id = 0]]

\* C5 witness: two calls have been rejected for different causes.
C5_Witness ==
    \E t1, t2 \in TaskIds :
        /\ tasks[t1].cause \in RejectionCauses
        /\ tasks[t2].cause \in RejectionCauses
        /\ tasks[t1].cause # tasks[t2].cause
        /\ Len(sent[t1]) = 1 /\ Len(sent[t2]) = 1

\* C6: every signed method call that parsed fully and whose handling has
\* ended has been sent exactly one MethodCallReturn, carrying its call_id.
C6_EveryCallAnsweredOnce ==
    \A t \in TaskIds :
        (IsCall(t) /\ Ended(t) /\ socket = "open") =>
            /\ Len(ReturnsOf(t)) = 1
            /\ ReturnsOf(t)[1].call_id = CallOf(tasks[t]).call_id

\* C7: a signed_method_call frame that is no full call but carries a readable
\* call_id is answered with one ParseError return carrying that call_id.
C7_PartialAnsweredWithCallId ==
    \A t \in TaskIds :
        LET text == tasks[t].text
        IN  (/\ text.message_type = "signed_method_call"
             /\ text.message_content.shape = "object"
             /\ text.message_content.has_call_id
             /\ ~ IsCall(t)) =>
                /\ Len(sent[t]) = 1
                /\ sent[t][1].message_type = "method_call_return"
                /\ sent[t][1].call_id = text.message_content.call_id
                /\ sent[t][1].error.error_id = "parse_error"

C9_NoAbort ==
    \A t \in TaskIds : tasks[t].pc \notin {"panicked", "overflow"}

\* C10: a handler's WorkerError is answered with InternalError and its
\* default message, without the fault's detail; a handler's MethodError is
\* answered with that error's error_id and message.
C10_ErrorMapping ==
    \A t \in TaskIds :
        LET result == tasks[t].result
            call_id == CallOf(tasks[t]).call_id
            reply(error) ==
                <<[message_type |-> "method_call_return", call_id |-> call_id,
                   return_type |-> "error", success |-> NoSuccess,
                   error |-> error, text |-> NoMessage]>>
        IN  /\ result.tag = "WorkerError" =>
                /\ sent[t] = reply([error_id |-> "internal_error",
                                    message |-> "An unexpected internal error occured."])
                /\ sent[t][1].error.message # result.detail
            /\ result.tag = "MethodError" => sent[t] = reply(result.error)

\* C10 witness: one admitted call's handler failed with a WorkerError and
\* another one's with a MethodError, and both were answered.
C10_Witness ==
    \E t1, t2 \in TaskIds :
        /\ Dispatched(t1) /\ tasks[t1].result.tag = "WorkerError" /\ Len(sent[t1]) = 1
        /\ Dispatched(t2) /\ tasks[t2].result.tag = "MethodError" /\ Len(sent[t2]) = 1

\* C11: whenever the RPC to the Peer actor or to a Room actor fails while a
\* signed call is handled, the caller is sent one InternalError return with
\* the default message and nothing of the fault.
C11_CollaboratorFaultIsInternalError ==
    \A t \in TaskIds :
        LET rpc_failed ==
                \/ tasks[t].peer_answer = "failed"
                \/ tasks[t].result.tag = "WorkerError"
        IN  (IsCall(t) /\ Ended(t) /\ rpc_failed) =>
                sent[t] = <<[message_type |-> "method_call_return",
                             call_id |-> CallOf(tasks[t]).call_id,
                             return_type |-> "error", success |-> NoSuccess,
                             error |-> [error_id |-> "internal_error",
                                        message |-> "An unexpected internal error occured."],
                             text |-> NoMessage]>>

(***************************************************************************)
(* create_room on its own: the clients send create_room calls only, each   *)
(* with a nonce of its own                                                 *)
(***************************************************************************)
CreateRoomCalls(call_id) ==
    {sign(MethodCallContent(caller, Nonce(call_id, T0), "create_room"), call_id, caller) :
        caller \in Keys}

CreateRoomFrames(call_id) == {CallFrame(call) : call \in CreateRoomCalls(call_id)}

NextCreateRoom ==
    \/ \E text \in CreateRoomFrames(Len(tasks) + 1) : Receive(text)
    \/ \E t \in 1..Len(tasks), answer \in PeerAnswers, draw \in Draws \cup {NoRoom} :
            PeerResponds(t, answer, draw)
    \/ \E t \in 1..Len(tasks), answer \in PeerAnswers, draw \in Draws \cup {NoRoom} :
            RoomResponds(t, answer, draw)
    \/ WsClose

SpecCreateRoom == Init /\ [][NextCreateRoom]_vars

\* the task's handler returned CreateRoomSuccess
ReturnedRoom(t) ==
    tasks[t].result.tag = "Ok" /\ tasks[t].result.success.kind = "create_room"

\* C12: a room id returned by create_room is one whose Room actor was absent
\* before this connection's calls and is initialised now, and no two
\* create_room calls return the same room id.
C12_CreatedRoomIdsAreFresh ==
    \A t \in TaskIds :
        ReturnedRoom(t) =>
            LET room_id == tasks[t].result.success.room_id
            IN  /\ room_id \in rooms
                /\ room_id \notin ExistingRooms
                /\ room_id = tasks[t].candidate
                /\ \A t2 \in TaskIds \ {t} :
                      ReturnedRoom(t2) => tasks[t2].result.success.room_id # room_id

\* C12 witness: two concurrent create_room calls drew the same candidate; one
\* returned it, the other was told that it already existed and drew again.
C12_Witness ==
    \E t1, t2 \in TaskIds :
        /\ t1 # t2
        /\ ReturnedRoom(t1)
        /\ tasks[t2].handler = "create_room"
        /\ tasks[t2].room_requests > 1
        /\ Len(sent[t1]) = 1

\* the retry ceiling the claim gives as its example
RetryCeiling == 20

\* number of candidates one create_room call is followed for
MaxRetries == 21

NextRetry ==
    \/ \E text \in CreateRoomFrames(Len(tasks) + 1) : Len(tasks) = 0 /\ Receive(text)
    \/ \E t \in 1..Len(tasks), answer \in PeerAnswers, draw \in Draws \cup {NoRoom} :
            PeerResponds(t, answer, draw)
    \/ \E t \in 1..Len(tasks), answer \in PeerAnswers, draw \in Draws \cup {NoRoom} :
            RoomRespondsWithin(t, answer, draw, MaxRetries)
    \/ WsClose

SpecRetry == Init /\ [][NextRetry]_vars

\* C13: create_room makes at most RetryCeiling attempts.
C13_RetryCeiling ==
    \A t \in TaskIds :
        tasks[t].handler = "create_room" => tasks[t].room_requests <= RetryCeiling

(***************************************************************************)
(* validate_timestamp on its own: u64 inputs at both ends of the range     *)
(***************************************************************************)
\* number of consecutive values taken after each anchor of `now`
ProbeSpread == 2

\* values of `now`: from 0, just below 300, an ordinary clock value, and the
\* last values of the u64 range
NowProbes ==
    {U64Add(anchor, ToU64(i)) :
        anchor \in {ToU64(0), ToU64(PastWindow - 1), ToU64(T0),
                    U64Sub(U64Max, ToU64(FutureSlack)),
                    U64Sub(U64Max, ToU64(ProbeSpread))},
        i \in 0..ProbeSpread}

\* timestamps: both edges of the window of `now` (computed modulo 2^64), the
\* middle of the window, and both ends of the u64 range
TimestampProbes(current) ==
    {U64Sub(current, ToU64(PastWindow + 1)), U64Sub(current, ToU64(PastWindow)),
     U64Sub(current, ToU64(PastWindow - 1)), U64Sub(current, ToU64(1)), current,
     U64Add(current, ToU64(FutureSlack - 1)), U64Add(current, ToU64(FutureSlack)),
     U64Add(current, ToU64(FutureSlack + 1)), ToU64(0), U64Max}

InitTimestamp ==
    /\ now = T0
    /\ socket = "open"
    /\ tasks = <<>>
    /\ sent = <<>>
    /\ ledger = [k \in Keys |-> {}]
    /\ rooms = ExistingRooms
    /\ WsApiClient_new
    /\ \E current \in NowProbes :
         \E timestamp \in TimestampProbes(current) :
            probe = [fn |-> "validate_timestamp", now |-> current,
                     timestamp |-> timestamp, done |-> FALSE, result |-> FALSE]

\* call validate_timestamp on the probe's inputs
ApplyValidateTimestamp ==
    /\ probe.fn = "validate_timestamp"
    /\ ~ probe.done
    /\ probe' = [probe EXCEPT !.done = TRUE,
                              !.result = validate_timestamp(probe.timestamp, probe.now)]
    /\ UNCHANGED <<now, socket, tasks, sent, ledger, rooms>>
    /\ UNCHANGED client_vars

NextTimestamp == ApplyValidateTimestamp

SpecTimestamp == InitTimestamp /\ [][NextTimestamp]_vars

\* a u64 as an integer of five limbs, so that sums do not wrap
Wide(a) == <<0, a[1], a[2], a[3], a[4]>>

\* a + n over the integers, for a u64 a and 0 <= n < 2^16
WidePlus(a, n) ==
    LET s4 == a[4] + n
        s3 == a[3] + (s4 \div Limb)
        s2 == a[2] + (s3 \div Limb)
        s1 == a[1] + (s2 \div Limb)
    IN  <<s1 \div Limb, s1 % Limb, s2 % Limb, s3 % Limb, s4 % Limb>>

\* a < b for integers of five limbs
WideLt(a, b) ==
    \E i \in 1..5 : a[i] < b[i] /\ \A j \in 1..(i - 1) : a[j] = b[j]

\* now - 300 < timestamp < now + 10 over the integers, for u64 inputs
InWindowU64(timestamp, current) ==
    /\ WideLt(Wide(current), WidePlus(timestamp, PastWindow))
    /\ WideLt(Wide(timestamp), WidePlus(current, FutureSlack))

\* C4: for every now and every timestamp, validate_timestamp is true exactly
\* when now - 300 < timestamp < now + 10 over the integers.
C4_WindowExactForEveryNow ==
    (probe.fn = "validate_timestamp" /\ probe.done) =>
        (probe.result = InWindowU64(probe.timestamp, probe.now))

(***************************************************************************)
(* sign, the wire round trip and validate_signature on their own           *)
(***************************************************************************)
\* number of times a signed call is serialized and parsed again
MaxTrips == 2

\* the contents that are signed
SignedContents ==
    {MethodCallContent(caller, Nonce(0, T0), m) :
        caller \in Keys, m \in {"create_room", "broadcast_data"}}

\* the JSON texts that parse as one of these contents
SignedTexts == {Json(enc, content) : enc \in Encodings, content \in SignedContents}

\* the probe: the call as the receiver holds it, the key and the bytes of the
\* signing that made its signature, whether it was made by sign, whether the
\* stored JSON is still the signed one, the number of round trips
SignatureProbe(call, signed_by, signed_bytes, by_sign, intact, trips) ==
    [fn |-> "validate_signature", call |-> call, signed_by |-> signed_by,
     signed_bytes |-> signed_bytes, by_sign |-> by_sign, intact |-> intact,
     trips |-> trips]

InitSignature ==
    /\ now = T0
    /\ socket = "open"
    /\ tasks = <<>>
    /\ sent = <<>>
    /\ ledger = [k \in Keys |-> {}]
    /\ rooms = ExistingRooms
    /\ WsApiClient_new
    /\ probe = SignatureProbe(NoSignedCall, NoKey, GarbageJson, FALSE, FALSE, 0)

\* a client builds a call with MethodCallContent::sign
SignCall(content, call_id, signing_key) ==
    /\ probe.fn = "validate_signature"
    /\ probe.call = NoSignedCall
    /\ LET call == sign(content, call_id, signing_key)
       IN  probe' = SignatureProbe(call, signing_key, to_string(content), TRUE, TRUE, 0)
    /\ UNCHANGED <<now, socket, tasks, sent, ledger, rooms>>
    /\ UNCHANGED client_vars

\* a call arrives whose sender signed its own JSON text of the content
ReceiveSigned(json, call_id, signing_key) ==
    /\ probe.fn = "validate_signature"
    /\ probe.call = NoSignedCall
    /\ LET frame == Frame("signed_method_call", "object", TRUE, call_id, json,
                          Sign(signing_key, json))
           parsed == ClientToServerMessage(frame)
       IN  /\ parsed.ok /\ parsed.kind = "full"
           /\ probe' = SignatureProbe(parsed.call, signing_key, json, FALSE, TRUE, 0)
    /\ UNCHANGED <<now, socket, tasks, sent, ledger, rooms>>
    /\ UNCHANGED client_vars

\* the call is serialized into a frame and parsed again
RoundTrip ==
    /\ probe.fn = "validate_signature"
    /\ probe.call # NoSignedCall
    /\ probe.trips < MaxTrips
    /\ LET parsed == ClientToServerMessage(CallFrame(probe.call))
       IN  /\ parsed.ok /\ parsed.kind = "full"
           /\ probe' = [probe EXCEPT !.call = parsed.call, !.trips = @ + 1]
    /\ UNCHANGED <<now, socket, tasks, sent, ledger, rooms>>
    /\ UNCHANGED client_vars

\* the signed_call string of the frame is replaced in transit by another
\* text, among them other encodings of the same content
Tamper(json) ==
    /\ probe.fn = "validate_signature"
    /\ probe.call # NoSignedCall
    /\ probe.trips < MaxTrips
    /\ json # probe.call.signed_call.json
    /\ json # probe.signed_bytes
    /\ LET frame == CallFrame(probe.call)
           changed == [frame EXCEPT !.message_content.signed_call = json]
           parsed == ClientToServerMessage(changed)
       IN  /\ parsed.ok /\ parsed.kind = "full"
           /\ probe' = [probe EXCEPT !.call = parsed.call, !.intact = FALSE,
                                     !.trips = @ + 1]
    /\ UNCHANGED <<now, socket, tasks, sent, ledger, rooms>>
    /\ UNCHANGED client_vars

NextSignature ==
    \/ \E content \in SignedContents, signing_key \in Keys : SignCall(content, 7, signing_key)
    \/ \E json \in SignedTexts, signing_key \in Keys : ReceiveSigned(json, 7, signing_key)
    \/ RoundTrip
    \/ \E json \in SignedTexts : Tamper(json)

SpecSignature == InitSignature /\ [][NextSignature]_vars

\* C3: validate_signature succeeds exactly when the signature was made with
\* the key of the embedded caller_id over the stored JSON bytes; a call made
\* by sign with the caller's key validates, also after being serialized and
\* parsed again; once the stored JSON differs from the signed bytes, also by
\* a mere re-encoding of the same content, validation fails.
C3_ValidatesExactlyTheSignedBytes ==
    (probe.fn = "validate_signature" /\ probe.call # NoSignedCall) =>
        LET call == probe.call
            caller == call.signed_call.call.caller_id
        IN  /\ validate_signature(call) <=>
                    (probe.signed_by = caller /\ probe.signed_bytes = call.signed_call.json)
            /\ (probe.intact /\ probe.signed_by = caller) => validate_signature(call)
            /\ ~ probe.intact => ~ validate_signature(call)

\* C3 witness: a call made by sign with the caller's own key has been
\* serialized and parsed again and validates.
C3_Witness ==
    /\ probe.fn = "validate_signature"
    /\ probe.call # NoSignedCall
    /\ probe.by_sign /\ probe.intact /\ probe.trips > 0
    /\ probe.signed_by = probe.call.signed_call.call.caller_id
    /\ validate_signature(probe.call)

(***************************************************************************)
(* The client-side connection manager and event bus                        *)
(* (zend-leptos/src/wsclient.rs).  The client is single-threaded and       *)
(* cooperative as well: every action is the run of one task from one       *)
(* .await to the next.                                                     *)
(***************************************************************************)
\* SubscriptionData (api.rs:523-530)
SubscriptionData(subscription_id, room_id, sender_id, nonce, data) ==
    [message_type |-> "subscription_data", subscription_id |-> subscription_id,
     room_id |-> room_id, sender_id |-> sender_id, nonce |-> nonce, data |-> data]

\* serde_json::to_string of a ServerToClientMessage as the worker sends it
\* (websocket.rs:18): the text of a frame
ServerText(message) == [enc |-> "canonical", message |-> message]

\* a text frame that is no ServerToClientMessage
GarbageText == [enc |-> "garbage", message |-> NoMessage]

\* serde_json::from_str::<ServerToClientMessage>(&msg) (wsclient.rs:388).
\* MethodCallSuccess is untagged with Value(serde_json::Value) as its first
\* variant (api.rs:445-456): every success payload parses as Value.
ServerToClientMessage_from_str_ok(text) == text.enc = "canonical"

ServerToClientMessage_from_str(text) ==
    IF text.message.message_type = "method_call_return"
           /\ text.message.return_type = "success"
    THEN [text.message EXCEPT !.success.kind = "value"]
    ELSE text.message

\* ApiClientEvent (wsclient.rs:12-18)
ApiClientEvent(kind, retry_after, message) ==
    [kind |-> kind, retry_after |-> retry_after, message |-> message]

ConnectedEvent == ApiClientEvent("Connected", 0, NoMessage)

ReconnectingEvent(retry_after) == ApiClientEvent("Reconnecting", retry_after, NoMessage)

EndedEvent == ApiClientEvent("Ended", 0, NoMessage)

ApiMessageEvent(message) == ApiClientEvent("ApiMessage", 0, message)

\* WrappedSocketEvent (wsclient.rs:528-536)
WrappedSocketEvent(kind, retry_after, text) ==
    [kind |-> kind, retry_after |-> retry_after, text |-> text]

\* Option<u64>::None of a filter item
NoId == -1

\* SubscriptionEventFilterItem (wsclient.rs:22-31)
SubscriptionEventFilterItem(item, id) == [item |-> item, id |-> id]

AnyItem == SubscriptionEventFilterItem("Any", NoId)

\* an add_filter_item that pushes whatever the set holds
add_filter_item_always_pushes(inner, item) == Append(inner, item)

\* SubscriptionEventFilter::add_filter_item (wsclient.rs:51-61)
add_filter_item(inner, item) ==
    IF \E i \in 1..Len(inner) : inner[i] = item \/ inner[i] = AnyItem
    THEN inner
    ELSE Append(inner, item)

\* SubscriptionEventFilter::new (wsclient.rs:62-64)
SubscriptionEventFilter_new == <<>>

\* SubscriptionEventFilter::any (wsclient.rs:65-68)
any(inner) == add_filter_item(<<>>, AnyItem)

\* the filter functions made by add_filter_fn! (wsclient.rs:69-77)
call_return_for_id(inner, id) ==
    add_filter_item(inner, SubscriptionEventFilterItem("ApiMethodCallReturn", id))

sub_data_for_id(inner, id) ==
    add_filter_item(inner, SubscriptionEventFilterItem("ApiSubscriptionData", id))

connected(inner) == add_filter_item(inner, SubscriptionEventFilterItem("Connected", NoId))

reconnecting(inner) == add_filter_item(inner, SubscriptionEventFilterItem("Reconnecting", NoId))

call_return(inner) ==
    add_filter_item(inner, SubscriptionEventFilterItem("ApiMethodCallReturn", NoId))

sub_data(inner) ==
    add_filter_item(inner, SubscriptionEventFilterItem("ApiSubscriptionData", NoId))

pong_filter(inner) == add_filter_item(inner, SubscriptionEventFilterItem("ApiPong", NoId))

info_filter(inner) == add_filter_item(inner, SubscriptionEventFilterItem("ApiInfo", NoId))

ended(inner) == add_filter_item(inner, SubscriptionEventFilterItem("Ended", NoId))

\* the message of an event is a ServerToClientMessage of the given type
match_message(event, message_type) ==
    event.kind = "ApiMessage" /\ event.message.message_type = message_type

\* a filter that takes its id for granted
filter_matches_any_id(filter, event) ==
    CASE filter.item = "Any" -> TRUE
      [] filter.item = "ApiMethodCallReturn" -> match_message(event, "method_call_return")
      [] filter.item = "ApiSubscriptionData" -> match_message(event, "subscription_data")
      [] filter.item = "ApiPong" -> match_message(event, "pong")
      [] filter.item = "ApiInfo" -> match_message(event, "info")
      [] filter.item = "Connected" -> event.kind = "Connected"
      [] filter.item = "Reconnecting" -> event.kind = "Reconnecting"
      [] filter.item = "Ended" -> event.kind = "Ended"

\* the closure of event_is_matched_by_any_filter (wsclient.rs:458-499)
filter_matches(filter, event) ==
    CASE filter.item = "Any" -> TRUE
      [] filter.item = "ApiMethodCallReturn" /\ filter.id # NoId ->
            /\ match_message(event, "method_call_return")
            /\ filter.id = event.message.call_id
      [] filter.item = "ApiSubscriptionData" /\ filter.id # NoId ->
            /\ match_message(event, "subscription_data")
            /\ filter.id = event.message.subscription_id
      [] filter.item = "ApiMethodCallReturn" /\ filter.id = NoId ->
            match_message(event, "method_call_return")
      [] filter.item = "ApiSubscriptionData" /\ filter.id = NoId ->
            match_message(event, "subscription_data")
      [] filter.item = "ApiPong" -> match_message(event, "pong")
      [] filter.item = "ApiInfo" -> match_message(event, "info")
      [] filter.item = "Connected" -> event.kind = "Connected"
      [] filter.item = "Reconnecting" -> event.kind = "Reconnecting"
      [] filter.item = "Ended" -> event.kind = "Ended"

\* event_is_matched_by_any_filter (wsclient.rs:428-500)
event_is_matched_by_any_filter(event, filters) ==
    \E i \in 1..Len(filters) : filter_matches(filters[i], event)

\* the buffer of mpsc::channel(256) (wsclient.rs:272)
ChannelBuffer == 256

\* mpsc::channel::<ApiClientEvent>(256) (wsclient.rs:272) with the handle
\* that owns its receiver (wsclient.rs:80-85, 97-103).  closed: the channel
\* was closed from either side or the sender was dropped.  timeout: the
\* handle has a timeout.  received and outcome record what the receiver's
\* owner got; event_filters, since are what it registered with and how many
\* events had been classified by then.
channel(id, subscriber_type, event_filters, timeout, since) ==
    [id |-> id, subscriber_type |-> subscriber_type, event_filters |-> event_filters,
     timeout |-> timeout, queue |-> <<>>, closed |-> FALSE, receiver |-> "held",
     received |-> <<>>, outcome |-> "pending", since |-> since]

\* Sender::try_send on a channel with one sender: the sender is parked by
\* the message that makes the queue longer than the buffer and unparked by
\* the next receive; a closed channel or a dropped receiver is disconnected
try_send(ch) ==
    IF ch.closed \/ ch.receiver = "dropped" THEN "disconnected"
    ELSE IF Len(ch.queue) > ChannelBuffer THEN "full"
    ELSE "ok"

\* EventSubscription (wsclient.rs:520-526); sender is the number of its channel
EventSubscription(id, event_filters, subscriber_type, sender) ==
    [id |-> id, event_filters |-> event_filters, subscriber_type |-> subscriber_type,
     sender |-> sender]

\* a removal that drops the last element and leaves index i as it is
swap_remove_truncating(v, i) == SubSeq(v, 1, Len(v) - 1)

\* Vec::swap_remove
swap_remove(v, i) ==
    [j \in 1..(Len(v) - 1) |-> IF j = i THEN v[Len(v)] ELSE v[j]]

\* an outcome of try_send after which a one-shot subscription stays registered
after_send_keeps_once(subscriber_type, result) ==
    IF result = "disconnected" THEN "remove" ELSE "keep"

\* what handle_event does with a matched subscription after try_send
\* (wsclient.rs:411-424): remove it when the channel is disconnected, close
\* and remove it when it is a one-shot, else keep it
after_send(subscriber_type, result) ==
    IF result = "disconnected" THEN "remove"
    ELSE IF subscriber_type = "Once" THEN "close_and_remove"
    ELSE "keep"

\* an index that always advances
next_index_always_advances(i, removed) == i + 1

\* the index handle_event goes on with (wsclient.rs:407-424): the same after
\* a swap_remove, which moved a subscription to it, else the next
next_index(i, removed) == IF removed THEN i ELSE i + 1

\* the loop of handle_event (wsclient.rs:396-425), from index i (counted from
\* 1); visited are the ids of the subscriptions it evaluated, in order
RECURSIVE handle_event_loop(_, _, _, _)
handle_event_loop(event, subscribers, chans, i) ==
    IF i > Len(subscribers)
    THEN [event_subscriptions |-> subscribers, channels |-> chans, visited |-> <<>>]
    ELSE LET subscriber == subscribers[i]
             c == subscriber.sender
             result == try_send(chans[c])
             pushed == IF result = "ok"
                       THEN [chans EXCEPT ![c].queue = Append(@, event)]
                       ELSE chans
             then == after_send(subscriber.subscriber_type, result)
             rest ==
                 IF ~event_is_matched_by_any_filter(event, subscriber.event_filters)
                 THEN handle_event_loop(event, subscribers, chans, next_index(i, FALSE))
                 ELSE IF then = "keep"
                 THEN handle_event_loop(event, subscribers, pushed, next_index(i, FALSE))
                 ELSE handle_event_loop(event, swap_remove(subscribers, i),
                                        [pushed EXCEPT ![c].closed = TRUE],
                                        next_index(i, TRUE))
         IN  [rest EXCEPT !.visited = <<subscriber.id>> \o @]

\* a classification that makes an event of every frame
classify_forwarding_unparsed(event, state) ==
    IF event.kind \in {"TextMessage", "BinaryMessage"}
    THEN [ws_state |-> state,
          classified |-> <<ApiMessageEvent(
              IF event.kind = "TextMessage" /\ ServerToClientMessage_from_str_ok(event.text)
              THEN ServerToClientMessage_from_str(event.text)
              ELSE info("unparsed"))>>]
    ELSE [ws_state |-> event.kind,
          classified |-> <<ApiClientEvent(event.kind, event.retry_after, NoMessage)>>]

\* the classification of handle_event (wsclient.rs:372-394): the new ws_state
\* and the ApiClientEvent, if the socket event makes one
classify(event, state) ==
    CASE event.kind = "Connected" ->
            [ws_state |-> "Connected", classified |-> <<ConnectedEvent>>]
      [] event.kind = "Reconnecting" ->
            [ws_state |-> "Reconnecting",
             classified |-> <<ReconnectingEvent(event.retry_after)>>]
      [] event.kind = "Ended" ->
            [ws_state |-> "Ended", classified |-> <<EndedEvent>>]
      [] event.kind = "TextMessage" ->
            IF ServerToClientMessage_from_str_ok(event.text)
            THEN [ws_state |-> state,
                  classified |-> <<ApiMessageEvent(ServerToClientMessage_from_str(event.text))>>]
            ELSE [ws_state |-> state, classified |-> <<>>]
      [] event.kind = "BinaryMessage" ->
            [ws_state |-> state, classified |-> <<>>]

\* handle_event (wsclient.rs:371-426)
handle_event(event, state, subscribers, chans) ==
    LET c == classify(event, state)
        after == IF c.classified = <<>>
                 THEN [event_subscriptions |-> subscribers, channels |-> chans,
                       visited |-> <<>>]
                 ELSE handle_event_loop(c.classified[1], subscribers, chans, 1)
    IN  [ws_state |-> c.ws_state, classified |-> c.classified,
         event_subscriptions |-> after.event_subscriptions,
         channels |-> after.channels, visited |-> after.visited]

\* a backoff that never stops doubling
backoff_uncapped(retry_after) == retry_after * 2

\* the retry_after that follows a sleep (wsclient.rs:596-601)
backoff(retry_after) == IF retry_after * 2 > 60 THEN 60 ELSE retry_after * 2

\* WsRefCellWrap::next_event after its select without setting ended
WsRefCellWrap_received_not_ended(w, event) ==
    CASE event.kind = "Connected" ->
            [w EXCEPT !.ws_copy = IF w.ws_wrap.ws # "none" THEN w.ws_wrap.ws ELSE @]
      [] event.kind = "Reconnecting" -> [w EXCEPT !.ws_copy = "none"]
      [] event.kind = "Ended" -> [w EXCEPT !.ws_copy = "none"]
      [] OTHER -> w

\* WsRefCellWrap::next_event after its select, keeping its socket handle
\* when the connection is lost
WsRefCellWrap_received_keeping_copy(w, event) ==
    CASE event.kind = "Connected" ->
            [w EXCEPT !.ws_copy = IF w.ws_wrap.ws # "none" THEN w.ws_wrap.ws ELSE @]
      [] event.kind = "Ended" ->
            [w EXCEPT !.ended = TRUE, !.ws_copy = "none",
                      !.ws_wrap.finished = (w.ws_copy # "none") \/ @]
      [] OTHER -> w

\* WsRefCellWrap::next_event after its select (wsclient.rs:658-680)
WsRefCellWrap_received(w, event) ==
    CASE event.kind = "Connected" ->
            [w EXCEPT !.ws_copy = IF w.ws_wrap.ws # "none" THEN w.ws_wrap.ws ELSE @]
      [] event.kind = "Reconnecting" -> [w EXCEPT !.ws_copy = "none"]
      [] event.kind = "Ended" ->
            [w EXCEPT !.ended = TRUE, !.ws_copy = "none",
                      !.ws_wrap.finished = (w.ws_copy # "none") \/ @]
      [] OTHER -> w

\* WsRefCellWrap::next_event and WebSocketWrap::next_event up to their first
\* .await (wsclient.rs:642-657, 568-574, 594-603): where the event handler
\* task is suspended next, or "done" when next_event returns None
next_event_begin(w) ==
    IF w.ended \/ w.ws_wrap.finished THEN [ws |-> w, at |-> "done"]
    ELSE IF w.ws_wrap.ws # "none" THEN [ws |-> w, at |-> "reading"]
    ELSE IF w.ws_wrap.retry_after > 0 THEN [ws |-> w, at |-> "sleeping"]
    ELSE [ws |-> [w EXCEPT !.ws_wrap.retry_after = 5], at |-> "connecting"]

\* the end of the event handler task (wsclient.rs:170-177): close_channel on
\* the sender of every subscription still registered
close_all(subscribers, chans) ==
    [c \in 1..Len(chans) |->
        IF \E i \in 1..Len(subscribers) : subscribers[i].sender = c
        THEN [chans[c] EXCEPT !.closed = TRUE]
        ELSE chans[c]]

\* one turn of the loop of the event handler task (wsclient.rs:167-169):
\* next_event returns the socket event, handle_event dispatches it, and the
\* task runs on to its next .await or to its end
Deliver(w, event, obs) ==
    LET received == WsRefCellWrap_received(w, event)
        handled == handle_event(event, ws_state, event_subscriptions, channels)
        next == next_event_begin(received)
    IN  /\ ws' = next.ws
        /\ dispatcher' = next.at
        /\ ws_state' = handled.ws_state
        /\ event_subscriptions' = handled.event_subscriptions
        /\ channels' = IF next.at = "done"
                       THEN close_all(handled.event_subscriptions, handled.channels)
                       ELSE handled.channels
        /\ observed' = [obs EXCEPT
                          !.classified = @ \o handled.classified,
                          !.visited = handled.visited,
                          !.delays = IF next.at = "connecting" THEN Append(@, 0) ELSE @]
        /\ UNCHANGED <<next_event_subscription_id, clones>>
        /\ UNCHANGED server_vars

\* the event handler task is polled for the first time (wsclient.rs:166-167)
DispatcherStarts ==
    /\ dispatcher = "start"
    /\ LET next == next_event_begin(ws)
       IN  /\ ws' = next.ws
           /\ dispatcher' = next.at
           /\ channels' = IF next.at = "done"
                          THEN close_all(event_subscriptions, channels)
                          ELSE channels
           /\ observed' = [observed EXCEPT
                             !.delays = IF next.at = "connecting" THEN Append(@, 0) ELSE @]
    /\ UNCHANGED <<ws_state, event_subscriptions, next_event_subscription_id, clones>>
    /\ UNCHANGED server_vars

\* the sleep before a connect attempt is over (wsclient.rs:594-603)
SleepElapses ==
    /\ dispatcher = "sleeping"
    /\ ws' = [ws EXCEPT !.ws_wrap.retry_after = backoff(@)]
    /\ dispatcher' = "connecting"
    /\ observed' = [observed EXCEPT !.delays = Append(@, ws.ws_wrap.retry_after)]
    /\ UNCHANGED <<ws_state, event_subscriptions, next_event_subscription_id, clones, channels>>
    /\ UNCHANGED server_vars

\* connect returns Ok (wsclient.rs:604-609)
ConnectSucceedsWithin(connects_limit) ==
    /\ dispatcher = "connecting"
    /\ observed.connects < connects_limit
    /\ Deliver([ws EXCEPT !.ws_wrap.retry_after = 0, !.ws_wrap.ws = "open"],
               WrappedSocketEvent("Connected", 0, NoMessage),
               [observed EXCEPT !.connects = @ + 1, !.delays = <<>>])

\* connect returns Err("WsErr") or, after 5 s, Err("Timeout")
\* (wsclient.rs:557-566, 610-611)
ConnectFailsWithin(reason, failures_limit) ==
    /\ dispatcher = "connecting"
    /\ reason \in {"WsErr", "Timeout"}
    /\ Len(observed.delays) <= failures_limit
    /\ Deliver(ws, WrappedSocketEvent("Reconnecting", ws.ws_wrap.retry_after, NoMessage),
               observed)

\* wsio.next() gives a message (wsclient.rs:586-591)
FrameArrivesWithin(frame, frames_limit) ==
    /\ dispatcher = "reading"
    /\ observed.frames < frames_limit
    /\ Deliver(ws, frame, [observed EXCEPT !.frames = @ + 1])

\* wsio.next() gives None: the stream is over, because the remote side
\* closed it cleanly, the connection dropped or it failed (wsclient.rs:592-593)
StreamEndsWithin(how, closes_limit) ==
    /\ dispatcher = "reading"
    /\ how \in {"clean", "drop", "error"}
    /\ observed.closes < closes_limit
    /\ Deliver([ws EXCEPT !.ws_wrap.ws = "none"],
               WrappedSocketEvent("Reconnecting", ws.ws_wrap.retry_after, NoMessage),
               [observed EXCEPT !.closes = @ + 1, !.last_close = how])

\* nothing arrived for close_timeout: the socket is closed (wsclient.rs:577-584)
CloseTimeoutWithin(closes_limit) ==
    /\ dispatcher = "reading"
    /\ observed.closes < closes_limit
    /\ Deliver([ws EXCEPT !.ws_wrap.ws = "none"],
               WrappedSocketEvent("Reconnecting", ws.ws_wrap.retry_after, NoMessage),
               [observed EXCEPT !.closes = @ + 1, !.last_close = "timeout"])

\* the select of WsRefCellWrap::next_event finds the end signal
\* (wsclient.rs:653-657)
EndReceived ==
    /\ dispatcher \in {"reading", "sleeping", "connecting"}
    /\ ws.end_channel > 0
    /\ Deliver([ws EXCEPT !.end_channel = 0],
               WrappedSocketEvent("Ended", 0, NoMessage), observed)

\* WsApiClient::end (wsclient.rs:208-210, 633-635): try_send on a channel
\* that holds one signal at most
end ==
    /\ ws' = [ws EXCEPT !.end_channel = 1]
    /\ UNCHANGED <<ws_state, event_subscriptions, next_event_subscription_id, clones,
                   channels, dispatcher, observed>>
    /\ UNCHANGED server_vars

\* register_event_subscription (wsclient.rs:267-290), for a handle with or
\* without a timeout
register_event_subscription(subscriber_type, event_filters, timeout) ==
    LET id == next_event_subscription_id
        new == channel(id, subscriber_type, event_filters, timeout,
                       Len(observed.classified))
    IN  /\ IF clones < 1
           THEN /\ channels' = Append(channels, [new EXCEPT !.closed = TRUE])
                /\ UNCHANGED <<event_subscriptions, next_event_subscription_id>>
           ELSE /\ channels' = Append(channels, new)
                /\ event_subscriptions' =
                       Append(event_subscriptions,
                              EventSubscription(id, event_filters, subscriber_type,
                                                Len(channels) + 1))
                /\ next_event_subscription_id' = id + 1
        /\ UNCHANGED <<ws, ws_state, clones, dispatcher, observed>>
        /\ UNCHANGED server_vars

\* get_event_handle (wsclient.rs:221-230)
get_event_handle(filter) == register_event_subscription("Once", filter, FALSE)

\* get_event_handle_timeout (wsclient.rs:232-245)
get_event_handle_timeout(filter) == register_event_subscription("Once", filter, TRUE)

\* receive_events (wsclient.rs:247-255)
receive_events(filter) == register_event_subscription("Persistent", filter, FALSE)

\* an unregistration that leaves the registry as it is
unregister_nothing(id, subscribers, chans) ==
    [event_subscriptions |-> subscribers, channels |-> chans]

\* unregister_event_subscription (wsclient.rs:292-299); the sender of the
\* subscription it removes is dropped
unregister_event_subscription(id, subscribers, chans) ==
    IF \E i \in 1..Len(subscribers) : subscribers[i].id = id
    THEN LET index == CHOOSE i \in 1..Len(subscribers) :
                          /\ subscribers[i].id = id
                          /\ \A j \in 1..(i - 1) : subscribers[j].id # id
         IN  [event_subscriptions |-> swap_remove(subscribers, index),
              channels |-> [chans EXCEPT ![subscribers[index].sender].closed = TRUE]]
    ELSE [event_subscriptions |-> subscribers, channels |-> chans]

\* WsRefCellWrap::end (wsclient.rs:633-635): try_send on a channel that holds
\* one signal at most
WsRefCellWrap_end(wrap) == [wrap EXCEPT !.end_channel = 1]

\* a drop that takes every handle for an owner
WsApiClient_drop_of_owner(anon, count, wrap) ==
    [clones |-> count - 1, ws |-> IF count <= 1 THEN WsRefCellWrap_end(wrap) ELSE wrap]

\* Drop for WsApiClient (wsclient.rs:357-369): the counter and the wrap after
\* a handle, anonymous or not, is dropped
WsApiClient_drop(anon, count, wrap) ==
    IF anon
    THEN [clones |-> count, ws |-> wrap]
    ELSE [clones |-> count - 1, ws |-> IF count <= 1 THEN WsRefCellWrap_end(wrap) ELSE wrap]

\* the api_client of a subscription handle, an anonymous clone
\* (wsclient.rs:227, 242, 253), is dropped with the handle
DropApiClient ==
    LET dropped == WsApiClient_drop(TRUE, clones, ws)
    IN  /\ clones' = dropped.clones
        /\ ws' = dropped.ws

\* a drop that empties the registry
drop_handle_clearing(c, subscribers, chans) ==
    [event_subscriptions |-> <<>>,
     channels |-> [chans EXCEPT ![c].receiver = "dropped", ![c].queue = <<>>]]

\* Drop of EventSubscriptionHandle and AwaitEventHandle (wsclient.rs:86-90,
\* 123-127): the subscription is unregistered, then the receiver is dropped
\* with what it still holds
drop_handle(c, subscribers, chans) ==
    LET u == unregister_event_subscription(chans[c].id, subscribers, chans)
    IN  [event_subscriptions |-> u.event_subscriptions,
         channels |-> [u.channels EXCEPT ![c].receiver = "dropped", ![c].queue = <<>>]]

\* await_event without a timeout returns (wsclient.rs:104-114): with the
\* event in the channel, or with EventsEmpty when the channel is closed and
\* empty; the handle is consumed
AwaitReturns(c) ==
    /\ c \in 1..Len(channels)
    /\ channels[c].subscriber_type = "Once"
    /\ channels[c].receiver = "held"
    /\ channels[c].queue # <<>> \/ channels[c].closed
    /\ LET got == IF channels[c].queue # <<>>
                  THEN [channels EXCEPT ![c].received = <<channels[c].queue[1]>>,
                                        ![c].outcome = "event"]
                  ELSE [channels EXCEPT ![c].outcome = "EventsEmpty"]
           dropped == drop_handle(c, event_subscriptions, got)
       IN  /\ channels' = dropped.channels
           /\ event_subscriptions' = dropped.event_subscriptions
    /\ DropApiClient
    /\ UNCHANGED <<ws_state, next_event_subscription_id, dispatcher, observed>>
    /\ UNCHANGED server_vars

\* await_event with a timeout times out (wsclient.rs:116-119, util.rs:4-13):
\* the select finds the receiver pending and the sleep over; the handle is
\* consumed before Err(Timeout) is returned
AwaitTimesOut(c) ==
    /\ c \in 1..Len(channels)
    /\ channels[c].subscriber_type = "Once"
    /\ channels[c].timeout
    /\ channels[c].receiver = "held"
    /\ channels[c].queue = <<>> /\ ~channels[c].closed
    /\ LET dropped == drop_handle(c, event_subscriptions,
                                  [channels EXCEPT ![c].outcome = "Timeout"])
       IN  /\ channels' = dropped.channels
           /\ event_subscriptions' = dropped.event_subscriptions
    /\ DropApiClient
    /\ UNCHANGED <<ws_state, next_event_subscription_id, dispatcher, observed>>
    /\ UNCHANGED server_vars

\* the owner of an EventSubscriptionHandle closes its receiver, a public
\* field (wsclient.rs:82), and keeps the handle
CloseReceiver(c) ==
    /\ c \in 1..Len(channels)
    /\ channels[c].subscriber_type = "Persistent"
    /\ channels[c].receiver = "held"
    /\ ~channels[c].closed
    /\ channels' = [channels EXCEPT ![c].closed = TRUE]
    /\ UNCHANGED <<ws, ws_state, event_subscriptions, next_event_subscription_id, clones,
                   dispatcher, observed>>
    /\ UNCHANGED server_vars

\* receiver.next() of an EventSubscriptionHandle gives an event
Take(c) ==
    /\ c \in 1..Len(channels)
    /\ channels[c].subscriber_type = "Persistent"
    /\ channels[c].receiver = "held"
    /\ channels[c].queue # <<>>
    /\ channels' = [channels EXCEPT ![c].received = Append(@, channels[c].queue[1]),
                                    ![c].queue = Tail(@)]
    /\ UNCHANGED <<ws, ws_state, event_subscriptions, next_event_subscription_id, clones,
                   dispatcher, observed>>
    /\ UNCHANGED server_vars

\* receiver.next() of an EventSubscriptionHandle gives None: the channel is
\* closed and empty
TakeNone(c) ==
    /\ c \in 1..Len(channels)
    /\ channels[c].subscriber_type = "Persistent"
    /\ channels[c].receiver = "held"
    /\ channels[c].outcome = "pending"
    /\ channels[c].queue = <<>> /\ channels[c].closed
    /\ channels' = [channels EXCEPT ![c].outcome = "None"]
    /\ UNCHANGED <<ws, ws_state, event_subscriptions, next_event_subscription_id, clones,
                   dispatcher, observed>>
    /\ UNCHANGED server_vars

\* a handle is dropped by its owner (wsclient.rs:86-90, 123-127)
DropHandle(c) ==
    /\ c \in 1..Len(channels)
    /\ channels[c].receiver = "held"
    /\ LET dropped == drop_handle(c, event_subscriptions, channels)
       IN  /\ channels' = dropped.channels
           /\ event_subscriptions' = dropped.event_subscriptions
    /\ DropApiClient
    /\ UNCHANGED <<ws_state, next_event_subscription_id, dispatcher, observed>>
    /\ UNCHANGED server_vars

\* the frames a connected socket gives
Pong == WrappedSocketEvent("TextMessage", 0, ServerText(pong))

GarbageTextFrame == WrappedSocketEvent("TextMessage", 0, GarbageText)

BinaryFrame == WrappedSocketEvent("BinaryMessage", 0, GarbageText)

(***************************************************************************)
(* The connection on its own: connect attempts that fail and succeed,      *)
(* frames, streams that end, end(), and one persistent subscriber to       *)
(* everything.                                                             *)
(***************************************************************************)
MaxConnectionFailures == 1

MaxConnects == 1

MaxCloses == 1

MaxConnectionFrames == 1

NextConnection ==
    \/ DispatcherStarts
    \/ SleepElapses
    \/ ConnectSucceedsWithin(MaxConnects)
    \/ \E reason \in {"WsErr", "Timeout"} :
           ConnectFailsWithin(reason, MaxConnectionFailures)
    \/ \E frame \in {Pong, GarbageTextFrame, BinaryFrame} :
           FrameArrivesWithin(frame, MaxConnectionFrames)
    \/ \E how \in {"clean", "drop", "error"} : StreamEndsWithin(how, MaxCloses)
    \/ CloseTimeoutWithin(MaxCloses)
    \/ EndReceived
    \/ ws.end_channel = 0 /\ end
    \/ Len(channels) < 1 /\ receive_events(any(SubscriptionEventFilter_new))
    \/ \E c \in 1..Len(channels) : Take(c)
    \/ \E c \in 1..Len(channels) : TakeNone(c)

SpecConnection == Init /\ [][NextConnection]_vars

(***************************************************************************)
(* The backoff on its own: a long run of failed connect attempts, before   *)
(* and after a connection that was up.                                     *)
(***************************************************************************)
MaxFailures == 7

MaxBackoffConnects == 1

NextBackoff ==
    \/ DispatcherStarts
    \/ SleepElapses
    \/ ConnectSucceedsWithin(MaxBackoffConnects)
    \/ \E reason \in {"WsErr", "Timeout"} : ConnectFailsWithin(reason, MaxFailures)
    \/ \E how \in {"clean", "drop", "error"} : StreamEndsWithin(how, MaxBackoffConnects)
    \/ CloseTimeoutWithin(MaxBackoffConnects)

SpecBackoff == Init /\ [][NextBackoff]_vars

\* WebSocketState (wsclient.rs:502-507)
WebSocketState == {"Connected", "Reconnecting", "Ended"}

\* the moves of the logical connection state the description allows
ConnectionMoves ==
    {<<"Reconnecting", "Connected">>, <<"Connected", "Reconnecting">>,
     <<"Reconnecting", "Reconnecting">>} \cup {<<state, "Ended">> : state \in WebSocketState}

\* the events classified by the step at hand
NewlyClassified ==
    SubSeq(observed'.classified, Len(observed.classified) + 1, Len(observed'.classified))

C14_Step ==
    /\ \A i \in 1..Len(NewlyClassified) :
          IF NewlyClassified[i].kind = "ApiMessage"
          THEN ws_state' = ws_state
          ELSE <<ws_state, ws_state'>> \in ConnectionMoves
    /\ NewlyClassified = <<>> => ws_state' = ws_state
    /\ ws_state = "Ended" =>
          /\ ws_state' = "Ended"
          /\ NewlyClassified = <<>>
          /\ \A c \in 1..Len(channels) : Len(channels'[c].queue) <= Len(channels[c].queue)
          /\ observed'.delays = observed.delays
          /\ dispatcher = "done" /\ dispatcher' = "done"

\* C14: every classified connection event moves the state Reconnecting ->
\* Connected, Connected -> Reconnecting, Reconnecting -> Reconnecting or
\* any -> Ended, nothing else moves it, and once it is Ended it stays Ended,
\* no event is classified or put into any subscriber's channel, no connect
\* attempt is made and the event handler task is over.
C14_ConnectionStateMachine == [][C14_Step]_vars

\* the connection was up, then end() ended it, and the subscriber took the
\* Ended event and saw its stream finish
C14_Witness ==
    /\ ws_state = "Ended"
    /\ observed.connects > 0
    /\ \E c \in 1..Len(channels) :
          /\ channels[c].outcome = "None"
          /\ channels[c].received # <<>>
          /\ channels[c].received[Len(channels[c].received)] = EndedEvent

\* C15: after the remote side closed a connected socket cleanly the state is
\* Ended and the event handler task is over, so that nothing reconnects.
C15_CleanCloseEnds ==
    observed.last_close = "clean" => ws_state = "Ended" /\ dispatcher = "done"

\* the delay the description gives for the i-th consecutive connect attempt
BackoffDelay(i) == IF i = 1 THEN 0 ELSE IF i >= 6 THEN 60 ELSE 5 * 2 ^ (i - 2)

\* C16: the delays waited before the connect attempts since the last
\* successful connect are 0, 5, 10, 20, 40, 60, 60, ...; retry_after is one
\* of 0, 5, 10, 20, 40, 60; and it is 0 while a socket is open.
C16_Backoff ==
    /\ \A i \in 1..Len(observed.delays) : observed.delays[i] = BackoffDelay(i)
    /\ ws.ws_wrap.retry_after \in {0, 5, 10, 20, 40, 60}
    /\ ws.ws_wrap.ws = "open" => ws.ws_wrap.retry_after = 0

\* after a successful connect and the end of its stream, seven attempts in
\* a row failed or are under way, the seventh after the capped delay
C16_Witness ==
    /\ observed.connects > 0
    /\ Len(observed.delays) >= 7
    /\ observed.delays[7] = 60
    /\ dispatcher = "connecting"

(***************************************************************************)
(* The event bus on its own: a connection that comes up once, frames of    *)
(* every kind, end(), and callers that register, await, take and drop.     *)
(***************************************************************************)
MaxSubscriptions == 1

MaxBusFrames == 1

MaxBusConnects == 1

\* the text frames the worker sends: a pong, returns of calls 1 and 2 and
\* data of subscriptions 1 and 2
Return(call_id) == WrappedSocketEvent("TextMessage", 0, ServerText(from_success(call_id, Ack)))

Data(subscription_id) ==
    WrappedSocketEvent("TextMessage", 0,
        ServerText(SubscriptionData(subscription_id, "AAAAAA", "k1", Nonce(1, T0), "data")))

BusFrames == {Pong, Return(1), Return(2), Data(1), Data(2)}

\* the filters callers register with
BusFilters ==
    {any(SubscriptionEventFilter_new),
     call_return_for_id(SubscriptionEventFilter_new, 1),
     sub_data_for_id(SubscriptionEventFilter_new, 1)}

NextBus ==
    \/ DispatcherStarts
    \/ ConnectSucceedsWithin(MaxBusConnects)
    \/ \E frame \in BusFrames : FrameArrivesWithin(frame, MaxBusFrames)
    \/ EndReceived
    \/ ws.end_channel = 0 /\ end
    \/ \E filter \in BusFilters :
           Len(channels) < MaxSubscriptions /\ get_event_handle(filter)
    \/ \E filter \in BusFilters :
           Len(channels) < MaxSubscriptions /\ receive_events(filter)
    \/ \E c \in 1..Len(channels) : AwaitReturns(c)
    \/ \E c \in 1..Len(channels) : Take(c)
    \/ \E c \in 1..Len(channels) : TakeNone(c)
    \/ \E c \in 1..Len(channels) : DropHandle(c)

SpecBus == Init /\ [][NextBus]_vars

\* C17: once the event handler task is over, the await of every one-shot
\* handle still held can return: its channel holds an event or is closed.
C17_OneShotNeverHangs ==
    dispatcher = "done" =>
        \A c \in 1..Len(channels) :
            channels[c].subscriber_type = "Once" /\ channels[c].receiver = "held" =>
                channels[c].queue # <<>> \/ channels[c].closed

\* what was put into channel c so far
Delivered(c) == channels[c].received \o channels[c].queue

\* C18: a one-shot subscription is sent one event at most, and a one-shot
\* subscription that is registered has been sent none.
C18_OneShotFiresOnce ==
    /\ \A c \in 1..Len(channels) :
          channels[c].subscriber_type = "Once" => Len(Delivered(c)) <= 1
    /\ \A i \in 1..Len(event_subscriptions) :
          event_subscriptions[i].subscriber_type = "Once" =>
              Delivered(event_subscriptions[i].sender) = <<>>

\* a one-shot subscription to everything got the first of two events the
\* socket gave after it was registered, and its await returned that event
C18_Witness ==
    \E c \in 1..Len(channels) :
        /\ channels[c].subscriber_type = "Once"
        /\ channels[c].event_filters = any(SubscriptionEventFilter_new)
        /\ channels[c].outcome = "event"
        /\ Len(observed.classified) >= channels[c].since + 2
        /\ channels[c].received = <<observed.classified[channels[c].since + 1]>>

\* C20: a channel registered with call_return_for_id(c) alone holds only
\* returns of call c, and one registered with sub_data_for_id(s) alone holds
\* only data of subscription s.
C20_IdFilters ==
    \A c \in 1..Len(channels) : \A id \in {1, 2} : \A k \in 1..Len(Delivered(c)) :
        /\ channels[c].event_filters = call_return_for_id(SubscriptionEventFilter_new, id) =>
              /\ match_message(Delivered(c)[k], "method_call_return")
              /\ Delivered(c)[k].message.call_id = id
        /\ channels[c].event_filters = sub_data_for_id(SubscriptionEventFilter_new, id) =>
              /\ match_message(Delivered(c)[k], "subscription_data")
              /\ Delivered(c)[k].message.subscription_id = id

\* a subscription to returns of call 1 alone, registered before the
\* connection came up, was passed over by the Connected event and took the
\* return of call 1 that followed
C20_Witness ==
    \E c \in 1..Len(channels) :
        /\ channels[c].event_filters = call_return_for_id(SubscriptionEventFilter_new, 1)
        /\ channels[c].subscriber_type = "Persistent"
        /\ channels[c].since = 0
        /\ Len(observed.classified) = 2
        /\ observed.classified[1] = ConnectedEvent
        /\ channels[c].received = <<observed.classified[2]>>
        /\ channels[c].received[1].message.call_id = 1
        /\ channels[c].queue = <<>>

(***************************************************************************)
(* A flood: subscribers register before the event handler task first runs  *)
(* and then take nothing, while the connection comes up and the socket     *)
(* gives more pongs than a channel holds.                                  *)
(***************************************************************************)
MaxFloodSubscriptions == 2

MaxFloodFrames == 258

FloodFilters == {any(SubscriptionEventFilter_new), pong_filter(SubscriptionEventFilter_new)}

NextFlood ==
    \/ DispatcherStarts
    \/ ConnectSucceedsWithin(MaxBusConnects)
    \/ FrameArrivesWithin(Pong, MaxFloodFrames)
    \/ \E filter \in FloodFilters :
           /\ dispatcher = "start"
           /\ Len(channels) < MaxFloodSubscriptions
           /\ get_event_handle(filter)
    \/ \E filter \in FloodFilters :
           /\ dispatcher = "start"
           /\ Len(channels) < MaxFloodSubscriptions
           /\ receive_events(filter)

SpecFlood == Init /\ [][NextFlood]_vars

\* channel c belongs to a persistent subscription that is registered and
\* whose handle is held
LivePersistent(c) ==
    /\ channels[c].subscriber_type = "Persistent"
    /\ channels[c].receiver = "held"
    /\ \E i \in 1..Len(event_subscriptions) : event_subscriptions[i].sender = c

\* the events classified since channel c was registered that match its filters
MatchingSince(c) ==
    LET Matches(event) == event_is_matched_by_any_filter(event, channels[c].event_filters)
    IN  SelectSeq(SubSeq(observed.classified, channels[c].since + 1,
                         Len(observed.classified)), Matches)

\* C19 as stated: what a live persistent subscription was sent is exactly the
\* matching events classified since it was registered, in their order.
C19_ReceivesEveryMatchingEvent ==
    \A c \in 1..Len(channels) : LivePersistent(c) => Delivered(c) = MatchingSince(c)

C19_Step ==
    \A c \in 1..Len(channels) :
        LivePersistent(c) /\ channels'[c].receiver = "held" =>
            channels'[c].received \o channels'[c].queue =
                IF /\ NewlyClassified # <<>>
                   /\ event_is_matched_by_any_filter(NewlyClassified[1],
                                                     channels[c].event_filters)
                   /\ Len(channels[c].queue) <= ChannelBuffer
                THEN Append(Delivered(c), NewlyClassified[1])
                ELSE Delivered(c)

\* C19, amended: every step that classifies an event appends it to what a
\* live persistent subscription was sent exactly when the event matches the
\* subscription's filters and its channel holds at most ChannelBuffer
\* events not yet taken; no other step, and no other subscription, changes
\* what it was sent.
C19_ReceivesMatchingUnlessFull == [][C19_Step]_vars

\* a persistent subscription whose channel is full was passed over by a
\* matching event
C19_Witness ==
    \E c \in 1..Len(channels) :
        /\ LivePersistent(c)
        /\ Len(channels[c].queue) = ChannelBuffer + 1
        /\ Len(MatchingSince(c)) > ChannelBuffer + 1

(***************************************************************************)
(* The registry on its own: one-shot handles with a timeout and persistent *)
(* handles are registered, awaited, timed out, closed and dropped around a *)
(* connection that comes up, gives pongs and is ended.                     *)
(***************************************************************************)
MaxRegistrySubscriptions == 2

MaxRegistryFrames == 1

RegistryFilters == {any(SubscriptionEventFilter_new), pong_filter(SubscriptionEventFilter_new)}

NextRegistry ==
    \/ DispatcherStarts
    \/ ConnectSucceedsWithin(MaxBusConnects)
    \/ FrameArrivesWithin(Pong, MaxRegistryFrames)
    \/ EndReceived
    \/ ws.end_channel = 0 /\ end
    \/ \E filter \in RegistryFilters :
           Len(channels) < MaxRegistrySubscriptions /\ get_event_handle_timeout(filter)
    \/ \E filter \in RegistryFilters :
           Len(channels) < MaxRegistrySubscriptions /\ receive_events(filter)
    \/ \E c \in 1..Len(channels) : AwaitReturns(c)
    \/ \E c \in 1..Len(channels) : AwaitTimesOut(c)
    \/ \E c \in 1..Len(channels) : CloseReceiver(c)
    \/ \E c \in 1..Len(channels) : DropHandle(c)

SpecRegistry == Init /\ [][NextRegistry]_vars

\* an entry with this id is in the registry
Registered(id, subscribers) == \E i \in 1..Len(subscribers) : subscribers[i].id = id

C21_Step ==
    /\ \A c \in 1..Len(channels') :
          /\ channels'[c].receiver = "dropped" =>
                ~Registered(channels'[c].id, event_subscriptions')
          /\ channels'[c].outcome \in {"event", "EventsEmpty", "Timeout"} =>
                channels'[c].receiver = "dropped"
    /\ \A c \in 1..Len(channels) :
          /\ channels[c].receiver = "held"
          /\ channels'[c].receiver = "dropped"
          /\ ~Registered(channels[c].id, event_subscriptions)
          => /\ event_subscriptions' = event_subscriptions
             /\ \A d \in 1..Len(channels) : d # c => channels'[d] = channels[d]

\* C21: after every step, no handle that is dropped has an entry with its id
\* in the registry, and a one-shot await that has returned an event,
\* EventsEmpty or Timeout has dropped its handle; a step that drops a handle
\* whose id is not registered changes neither the registry nor any other
\* channel.
C21_DroppedHandlesAreUnregistered == [][C21_Step]_vars

\* a one-shot await timed out while a persistent subscription stayed
\* registered
C21_Witness ==
    \E c, d \in 1..Len(channels) :
        /\ channels[c].outcome = "Timeout"
        /\ channels[d].subscriber_type = "Persistent"
        /\ channels[d].receiver = "held"
        /\ Registered(channels[d].id, event_subscriptions)

\* the ids of the subscriptions in a registry, in their order
IdsOf(subscribers) == [i \in 1..Len(subscribers) |-> subscribers[i].id]

\* the pass of this step evaluated every subscription registered at its
\* start exactly once
EvaluatedOnce ==
    /\ Len(observed'.visited) = Len(event_subscriptions)
    /\ \A i \in 1..Len(event_subscriptions) :
          \E k \in 1..Len(observed'.visited) :
              observed'.visited[k] = event_subscriptions[i].id

\* no one-shot subscription that was sent the event is registered after
\* the pass of this step
NoFiredOneShotRemains ==
    \A i \in 1..Len(event_subscriptions') :
        event_subscriptions'[i].subscriber_type = "Once" =>
            channels'[event_subscriptions'[i].sender].received
                \o channels'[event_subscriptions'[i].sender].queue = <<>>

C30_StepAsStated ==
    NewlyClassified # <<>> =>
        /\ EvaluatedOnce
        /\ NoFiredOneShotRemains
        /\ \A i \in 1..Len(event_subscriptions') :
              ~channels[event_subscriptions'[i].sender].closed

\* C30 as stated: every pass evaluates every subscription registered at its
\* start exactly once, and after it no subscription whose channel was closed
\* and no one-shot subscription that was sent the event is registered.
C30_PassRemovesEveryClosed == [][C30_StepAsStated]_vars

C30_Step ==
    NewlyClassified # <<>> =>
        /\ EvaluatedOnce
        /\ NoFiredOneShotRemains
        /\ \A i \in 1..Len(event_subscriptions') :
              event_is_matched_by_any_filter(NewlyClassified[1],
                                             event_subscriptions'[i].event_filters)
                  => ~channels[event_subscriptions'[i].sender].closed

\* C30, amended: every pass evaluates every subscription registered at its
\* start exactly once, and after it no subscription that the event matches
\* and whose channel was closed, and no one-shot subscription that was sent
\* the event, is registered.
C30_PassRemovesMatchedClosed == [][C30_Step]_vars

\* a pass removed a one-shot subscription by swap_remove, evaluated the
\* subscription moved to its index, and left that one registered although
\* its channel is closed, because the event does not match it
C30_Witness ==
    /\ Len(observed.visited) = 2
    /\ dispatcher = "reading"
    /\ Len(event_subscriptions) = 1
    /\ event_subscriptions[1].id = observed.visited[2]
    /\ channels[event_subscriptions[1].sender].closed
    /\ \E c \in 1..Len(channels) :
          /\ channels[c].id = observed.visited[1]
          /\ channels[c].subscriber_type = "Once"
          /\ channels[c].received \o channels[c].queue # <<>>

(***************************************************************************)
(* Pure functions of the client and of the common crate are probed from    *)
(* a state in which nothing else happens.                                  *)
(***************************************************************************)
InitProbing(p) ==
    /\ now = T0
    /\ socket = "open"
    /\ tasks = <<>>
    /\ sent = <<>>
    /\ ledger = [k \in Keys |-> {}]
    /\ rooms = ExistingRooms
    /\ WsApiClient_new
    /\ probe = p

(***************************************************************************)
(* SubscriptionEventFilter on its own: a filter set is built by a few      *)
(* calls of its functions and matched against an event.                    *)
(***************************************************************************)
MaxFilterCalls == 2

\* the functions of SubscriptionEventFilter that take self, with their id
FilterFns ==
    {<<"any", NoId>>, <<"connected", NoId>>, <<"reconnecting", NoId>>,
     <<"call_return", NoId>>, <<"sub_data", NoId>>, <<"pong", NoId>>,
     <<"info", NoId>>, <<"ended", NoId>>}
    \cup {<<f, id>> : f \in {"call_return_for_id", "sub_data_for_id"}, id \in {1, 2}}

\* the call of one of them on a filter set
apply_filter_fn(fn, inner) ==
    CASE fn[1] = "any" -> any(inner)
      [] fn[1] = "call_return_for_id" -> call_return_for_id(inner, fn[2])
      [] fn[1] = "sub_data_for_id" -> sub_data_for_id(inner, fn[2])
      [] fn[1] = "connected" -> connected(inner)
      [] fn[1] = "reconnecting" -> reconnecting(inner)
      [] fn[1] = "call_return" -> call_return(inner)
      [] fn[1] = "sub_data" -> sub_data(inner)
      [] fn[1] = "pong" -> pong_filter(inner)
      [] fn[1] = "info" -> info_filter(inner)
      [] fn[1] = "ended" -> ended(inner)

\* the item a function adds
item_of(fn) ==
    CASE fn[1] = "any" -> AnyItem
      [] fn[1] = "call_return_for_id" -> SubscriptionEventFilterItem("ApiMethodCallReturn", fn[2])
      [] fn[1] = "sub_data_for_id" -> SubscriptionEventFilterItem("ApiSubscriptionData", fn[2])
      [] fn[1] = "connected" -> SubscriptionEventFilterItem("Connected", NoId)
      [] fn[1] = "reconnecting" -> SubscriptionEventFilterItem("Reconnecting", NoId)
      [] fn[1] = "call_return" -> SubscriptionEventFilterItem("ApiMethodCallReturn", NoId)
      [] fn[1] = "sub_data" -> SubscriptionEventFilterItem("ApiSubscriptionData", NoId)
      [] fn[1] = "pong" -> SubscriptionEventFilterItem("ApiPong", NoId)
      [] fn[1] = "info" -> SubscriptionEventFilterItem("ApiInfo", NoId)
      [] fn[1] = "ended" -> SubscriptionEventFilterItem("Ended", NoId)

\* the events a filter set is matched against
ProbeEvents ==
    <<ConnectedEvent, ReconnectingEvent(5), EndedEvent,
      ApiMessageEvent(pong), ApiMessageEvent(info("text")),
      ApiMessageEvent(ServerToClientMessage_from_str(Return(1).text)),
      ApiMessageEvent(ServerToClientMessage_from_str(Return(2).text)),
      ApiMessageEvent(ServerToClientMessage_from_str(Data(1).text)),
      ApiMessageEvent(ServerToClientMessage_from_str(Data(2).text))>>

\* SubscriptionEventFilter::new (wsclient.rs:62-64) and nothing called yet
InitFilter ==
    InitProbing([fn |-> "filter", inner |-> SubscriptionEventFilter_new, calls |-> <<>>,
                 before |-> SubscriptionEventFilter_new, matched |-> "unknown",
                 event |-> "none"])

\* one of the functions is called on the filter set
CallFilterFn(fn) ==
    /\ probe.fn = "filter"
    /\ probe.matched = "unknown"
    /\ Len(probe.calls) < MaxFilterCalls
    /\ probe' = [probe EXCEPT !.inner = apply_filter_fn(fn, probe.inner),
                              !.before = probe.inner,
                              !.calls = Append(@, fn)]
    /\ UNCHANGED <<now, socket, tasks, sent, ledger, rooms>>
    /\ UNCHANGED client_vars

\* event_is_matched_by_any_filter is called on an event and the filter set
MatchEvent(event) ==
    /\ probe.fn = "filter"
    /\ probe.matched = "unknown"
    /\ probe' = [probe EXCEPT
                   !.event = event,
                   !.matched = IF event_is_matched_by_any_filter(event, probe.inner)
                               THEN "yes" ELSE "no"]
    /\ UNCHANGED <<now, socket, tasks, sent, ledger, rooms>>
    /\ UNCHANGED client_vars

NextFilter ==
    \/ \E fn \in FilterFns : CallFilterFn(fn)
    \/ \E k \in 1..Len(ProbeEvents) : MatchEvent(ProbeEvents[k])

SpecFilter == InitFilter /\ [][NextFilter]_vars

\* any() is among the calls made
AnyCalled == \E k \in 1..Len(probe.calls) : probe.calls[k][1] = "any"

\* C22: the event matches the set exactly when one of its filters matches
\* it; a set on which any() was called, before or after other calls, is the
\* single filter Any and matches every event; and a call that adds a filter
\* the set already holds leaves the set as it was.
C22_FilterSets ==
    probe.fn = "filter" =>
        /\ probe.matched # "unknown" =>
              (probe.matched = "yes") =
                  (\E i \in 1..Len(probe.inner) : filter_matches(probe.inner[i], probe.event))
        /\ AnyCalled =>
              /\ probe.inner = <<AnyItem>>
              /\ probe.matched # "no"
        /\ probe.calls # <<>> =>
              LET item == item_of(probe.calls[Len(probe.calls)])
              IN  (\E i \in 1..Len(probe.before) : probe.before[i] = item) =>
                      probe.inner = probe.before

\* any() was called and then a filter for returns of call 1; the set was
\* matched against a pong
C22_Witness ==
    /\ probe.fn = "filter"
    /\ Len(probe.calls) = 2
    /\ probe.calls[1][1] = "any"
    /\ probe.calls[2] = <<"call_return_for_id", 1>>
    /\ probe.matched = "yes"
    /\ match_message(probe.event, "pong")

(***************************************************************************)
(* Nonce on its own (api.rs:14-50).  id and timestamp are u64; self.id + 1 *)
(* panics at u64::MAX in a build with overflow checks and wraps to 0 in a  *)
(* build without them.                                                     *)
(***************************************************************************)
\* Nonce::new (api.rs:21-26)
Nonce_new(time) == Nonce(ToU64(0), time)

\* Nonce::next (api.rs:27-36)
Nonce_next(self, time, overflow_checks) ==
    IF U64Lt(self.timestamp, time)
    THEN [panicked |-> FALSE, nonce |-> Nonce(ToU64(0), time)]
    ELSE IF self.id = U64Max /\ overflow_checks
    THEN [panicked |-> TRUE, nonce |-> self]
    ELSE [panicked |-> FALSE, nonce |-> Nonce(U64Add(self.id, ToU64(1)), time)]

\* self < other by Ord for Nonce (api.rs:42-50): timestamp first, then id
Nonce_lt(self, other) ==
    \/ U64Lt(self.timestamp, other.timestamp)
    \/ self.timestamp = other.timestamp /\ U64Lt(self.id, other.id)

NonceSpread == 2

\* the ids probed: the smallest and the largest
IdProbes ==
    {ToU64(n) : n \in 0..NonceSpread} \cup {U64Sub(U64Max, ToU64(n)) : n \in 0..NonceSpread}

\* the times probed
TimeProbes == {ToU64(T0 + n) : n \in 0..NonceSpread}

InitNonce ==
    \E id \in IdProbes, timestamp \in TimeProbes, time \in TimeProbes,
       overflow_checks \in BOOLEAN :
        /\ ~U64Lt(time, timestamp)
        /\ InitProbing([fn |-> "Nonce::next", self |-> Nonce(id, timestamp), time |-> time,
                        overflow_checks |-> overflow_checks, done |-> FALSE,
                        result |-> [panicked |-> FALSE, nonce |-> Nonce(id, timestamp)]])

\* call next on the probe's inputs
ApplyNonceNext ==
    /\ probe.fn = "Nonce::next"
    /\ ~probe.done
    /\ probe' = [probe EXCEPT
                   !.done = TRUE,
                   !.result = Nonce_next(probe.self, probe.time, probe.overflow_checks)]
    /\ UNCHANGED <<now, socket, tasks, sent, ledger, rooms>>
    /\ UNCHANGED client_vars

NextNonce == ApplyNonceNext

SpecNonce == InitNonce /\ [][NextNonce]_vars

\* C26: for every nonce N and time T >= N.timestamp, N.next(T) returns a
\* nonce with timestamp T whose counter is 0 if T > N.timestamp and
\* N.counter + 1 otherwise, and that nonce is greater than N.
C26_NextIsGreater ==
    probe.fn = "Nonce::next" /\ probe.done =>
        /\ ~probe.result.panicked
        /\ probe.result.nonce.timestamp = probe.time
        /\ Wide(probe.result.nonce.id) =
              IF U64Lt(probe.self.timestamp, probe.time)
              THEN Wide(ToU64(0))
              ELSE WidePlus(probe.self.id, 1)
        /\ Nonce_lt(probe.self, probe.result.nonce)

(***************************************************************************)
(* AppClient on its own (zend-leptos/src/appclient.rs:331-397): calls of   *)
(* make_server_method_call under a system clock that reads anything.       *)
(***************************************************************************)
MaxCalls == 3

ClockSpread == 2

\* what get_sys_time (appclient.rs:331-333) may read
ClockReadings == {ToU64(T0 + n) : n \in 0..ClockSpread}

\* a time that is the clock's reading whatever was read before
get_time_of_clock(last_time, sys_time) == sys_time

\* RoomState::get_time (appclient.rs:355-359): the new last_time
get_time(last_time, sys_time) == IF U64Lt(sys_time, last_time) THEN last_time ELSE sys_time

\* RoomState::init (appclient.rs:335-351) and AppClient::new (375-381), with
\* the identity k1
InitAppClient ==
    \E time \in ClockReadings, overflow_checks \in BOOLEAN :
        InitProbing([fn |-> "AppClient", next_nonce |-> Nonce_new(time), last_time |-> time,
                     next_call_id |-> 0, overflow_checks |-> overflow_checks,
                     panicked |-> FALSE, readings |-> <<>>, issued |-> <<>>])

\* make_server_method_call (appclient.rs:382-397) with RoomState::next_nonce
\* (360-365), while the clock reads sys_time
make_server_method_call(method_name, sys_time) ==
    /\ probe.fn = "AppClient"
    /\ ~probe.panicked
    /\ Len(probe.issued) < MaxCalls
    /\ LET time == get_time(probe.last_time, sys_time)
           nonce == probe.next_nonce
           incremented == Nonce_next(probe.next_nonce, time, probe.overflow_checks)
           call == sign(MethodCallContent("k1", nonce, method_name),
                        probe.next_call_id, "k1")
       IN  probe' =
             IF incremented.panicked
             THEN [probe EXCEPT !.panicked = TRUE, !.last_time = time,
                                !.readings = Append(@, sys_time)]
             ELSE [probe EXCEPT !.last_time = time,
                                !.next_nonce = incremented.nonce,
                                !.next_call_id = @ + 1,
                                !.readings = Append(@, sys_time),
                                !.issued = Append(@, call)]
    /\ UNCHANGED <<now, socket, tasks, sent, ledger, rooms>>
    /\ UNCHANGED client_vars

NextAppClient ==
    \E method_name \in {"subscribe_to_room", "broadcast_data"}, sys_time \in ClockReadings :
        make_server_method_call(method_name, sys_time)

SpecAppClient == InitAppClient /\ [][NextAppClient]_vars

\* the nonce of the i-th call made
IssuedNonce(i) == probe.issued[i].signed_call.call.nonce

\* C25: the calls made so far have the call_ids 0, 1, 2, ... and nonces
\* that strictly increase in the order timestamp first, then counter.
C25_CallIdsAndNoncesIncrease ==
    probe.fn = "AppClient" =>
        /\ \A i \in 1..Len(probe.issued) : probe.issued[i].call_id = i - 1
        /\ \A i, j \in 1..Len(probe.issued) :
              i < j => Nonce_lt(IssuedNonce(i), IssuedNonce(j))

\* three calls were made while the clock first moved backwards and then
\* stood still
C25_Witness ==
    /\ probe.fn = "AppClient"
    /\ Len(probe.issued) = 3
    /\ U64Lt(probe.readings[2], probe.readings[1])
    /\ probe.readings[3] = probe.readings[2]

(***************************************************************************)
(* RoomId on its own (zend-common/src/api.rs:147-205).  A string is the     *)
(* sequence of the code points of its chars; 65 is 'A', 90 'Z', 97 'a',     *)
(* 122 'z'.                                                                 *)
(***************************************************************************)
MaxIdLen == 7

RoomIdRange == 26^6

\* letters of both cases, and chars next to the two letter ranges, a digit
\* and a char outside ASCII
LetterChars == {65, 90, 97}

OddChars == {64, 91, 96, 123, 49, 233}

\* a char left as it is
keep_case(char) == char

\* char::make_ascii_uppercase (api.rs:172)
make_ascii_uppercase(char) == IF char \in 97..122 THEN char - 32 ELSE char

\* char::is_ascii_uppercase (api.rs:173)
is_ascii_uppercase(char) == char \in 65..90

RoomIdOk(id) == [ok |-> TRUE, error |-> "none", id |-> id]

RoomIdErr(error) == [ok |-> FALSE, error |-> error, id |-> NoId]

RECURSIVE RoomId_try_from_loop(_, _, _, _)
\* the loop of try_from (api.rs:166-183) from the i-th char on
RoomId_try_from_loop(value, i, out_int, exponent) ==
    IF i > Len(value)
    THEN IF exponent > -1 THEN RoomIdErr("ID too short") ELSE RoomIdOk(out_int)
    ELSE IF exponent < 0
    THEN RoomIdErr("ID too long")
    ELSE LET char == make_ascii_uppercase(value[i])
         IN  IF ~is_ascii_uppercase(char)
             THEN RoomIdErr("ID contains invalid characters")
             ELSE RoomId_try_from_loop(value, i + 1,
                                       out_int + (26^exponent) * (char - 65),
                                       exponent - 1)

\* TryFrom<String> for RoomId (api.rs:163-185)
RoomId_try_from(value) == RoomId_try_from_loop(value, 1, 0, 5)

RECURSIVE RoomId_into_loop(_, _, _)
\* the loop of into (api.rs:194-202); out is built least significant first
RoomId_into_loop(input, i, out) ==
    IF i >= 6
    THEN out
    ELSE IF input > 0
    THEN RoomId_into_loop(input \div 26, i + 1, Append(out, (input % 26) + 65))
    ELSE RoomId_into_loop(input, i + 1, Append(out, 65))

\* Into<String> for RoomId (api.rs:186-205), out.chars().rev() included
RoomId_into(id) ==
    LET out == RoomId_into_loop(id % RoomIdRange, 0, <<>>)
    IN  [k \in 1..Len(out) |-> out[Len(out) + 1 - k]]

\* a RoomId of any integer
RoomId_from_int_unchecked(id_int) == RoomIdOk(id_int)

\* RoomId::from_int (api.rs:151-154); the assert is compiled into every build
RoomId_from_int(id_int) ==
    IF id_int < RoomIdRange THEN RoomIdOk(id_int) ELSE RoomIdErr("panicked")

\* The f64 product random * 26^6 (api.rs:160) truncated to u64.  A random is
\* k/4 (exact in f64, and so is the product, 26^6 being a multiple of 64),
\* or 1 - m * 2^-53, the m-th f64 below 1: the exact product
\* 26^6 - m * 26^6 * 2^-53 lies in [2^28, 2^29), where f64 values are 2^-24
\* apart, and is rounded to 26^6 - r * 2^-24 with r the nearest integer to
\* m * 26^6 / 2^29.  A negative f64 is cast to 0.  A random may also be the
\* f64 nearest to k/255: 26^6 has no factor in common with 255, so for
\* 0 < k < 255 the exact product k * 26^6 / 255 is at least 1/255 away from
\* every integer, the two roundings move it by less than 2^-23, and the cast
\* gives its floor; 0/255 and 255/255 are exact.
random_times_range_as_u64(random) ==
    IF random.kind = "quarters"
    THEN IF random.k < 0 THEN 0 ELSE (random.k * RoomIdRange) \div 4
    ELSE IF random.kind = "of_255"
    THEN random.k * (RoomIdRange \div 255) + (random.k * (RoomIdRange % 255)) \div 255
    ELSE LET r == (random.m * RoomIdRange + 2^28) \div (2^29)
         IN  IF r = 0 THEN RoomIdRange ELSE RoomIdRange - 1 - ((r - 1) \div (2^24))

\* RoomId::from_random (api.rs:158-161); NaN < 1.0 is false
RoomId_from_random(random) ==
    IF \/ random.kind = "nan"
       \/ random.kind = "quarters" /\ random.k >= 4
       \/ random.kind = "of_255" /\ random.k >= 255
    THEN RoomIdErr("panicked")
    ELSE RoomIdOk(random_times_range_as_u64(random))

IntProbes ==
    {0, 1, 25, 26, 27, 675, 676, RoomIdRange - 1,
     RoomIdRange, RoomIdRange + 1, RoomIdRange + 26, 2 * RoomIdRange - 1, 2 * RoomIdRange}

RandomProbes ==
    [kind : {"quarters"}, k : -1..5, m : {0}]
        \cup [kind : {"below_one"}, k : {0}, m : 1..3]
        \cup {[kind |-> "nan", k |-> 0, m |-> 0]}

RoomIdProbe(op, text, input, result) ==
    [fn |-> "RoomId", op |-> op, text |-> text, input |-> input, result |-> result,
     rendered |-> IF result.ok THEN RoomId_into(result.id) ELSE <<>>]

InitRoomId == InitProbing(RoomIdProbe("none", <<>>, 0, RoomIdErr("none")))

\* one more char of the string to be parsed, at most one of them no letter
PushChar(char) ==
    /\ probe.fn = "RoomId"
    /\ probe.op = "none"
    /\ Len(probe.text) < MaxIdLen
    /\ char \in OddChars => \A k \in 1..Len(probe.text) : probe.text[k] \notin OddChars
    /\ probe' = [probe EXCEPT !.text = Append(@, char)]
    /\ UNCHANGED <<now, socket, tasks, sent, ledger, rooms>>
    /\ UNCHANGED client_vars

\* the string is parsed, and the RoomId, if there is one, rendered
TryFromString ==
    /\ probe.fn = "RoomId"
    /\ probe.op = "none"
    /\ probe' = RoomIdProbe("try_from", probe.text, 0, RoomId_try_from(probe.text))
    /\ UNCHANGED <<now, socket, tasks, sent, ledger, rooms>>
    /\ UNCHANGED client_vars

\* RoomId::from_int on an integer, the RoomId rendered
FromInt(id_int) ==
    /\ probe.fn = "RoomId"
    /\ probe.op = "none"
    /\ probe.text = <<>>
    /\ probe' = RoomIdProbe("from_int", <<>>, id_int, RoomId_from_int(id_int))
    /\ UNCHANGED <<now, socket, tasks, sent, ledger, rooms>>
    /\ UNCHANGED client_vars

\* RoomId::from_random on a float, the RoomId rendered
FromRandom(random) ==
    /\ probe.fn = "RoomId"
    /\ probe.op = "none"
    /\ probe.text = <<>>
    /\ probe' = RoomIdProbe("from_random", <<>>, random, RoomId_from_random(random))
    /\ UNCHANGED <<now, socket, tasks, sent, ledger, rooms>>
    /\ UNCHANGED client_vars

NextRoomId ==
    \/ \E char \in LetterChars \cup OddChars : PushChar(char)
    \/ TryFromString
    \/ \E id_int \in IntProbes : FromInt(id_int)
    \/ \E random \in RandomProbes : FromRandom(random)

SpecRoomId == InitRoomId /\ [][NextRoomId]_vars

\* the value of six letters, most significant first, 'A' the digit zero
ValueOfLetters(letters) ==
    letters[1] * 26^5 + letters[2] * 26^4 + letters[3] * 26^3
        + letters[4] * 26^2 + letters[5] * 26 + letters[6]

\* C27 as stated: parsing succeeds exactly for six letters A-Z, and a string
\* that parses is rendered back as itself.
C27_ParsesExactlyUppercase ==
    (probe.fn = "RoomId" /\ probe.op = "try_from") =>
        /\ probe.result.ok <=>
              /\ Len(probe.text) = 6
              /\ \A k \in 1..Len(probe.text) : probe.text[k] \in 65..90
        /\ probe.result.ok => probe.rendered = probe.text

\* C27: parsing succeeds exactly for six ASCII letters of either case and
\* fails for every other string; a string that parses is rendered back in
\* upper case, its value read most significant letter first with 'A' as
\* zero; an integer below 26^6 is rendered as six letters that parse back to
\* it.
C27_ParseAndRenderAreInverse ==
    probe.fn = "RoomId" =>
        /\ probe.op = "try_from" =>
              /\ probe.result.ok <=>
                    /\ Len(probe.text) = 6
                    /\ \A k \in 1..Len(probe.text) :
                          probe.text[k] \in (65..90) \cup (97..122)
              /\ probe.result.ok =>
                    /\ probe.rendered =
                          [k \in 1..6 |-> IF probe.text[k] \in 97..122
                                          THEN probe.text[k] - 32 ELSE probe.text[k]]
                    /\ probe.result.id =
                          ValueOfLetters([k \in 1..6 |-> probe.rendered[k] - 65])
        /\ (probe.op = "from_int" /\ probe.input < RoomIdRange) =>
              /\ probe.result.ok
              /\ Len(probe.rendered) = 6
              /\ \A k \in 1..6 : probe.rendered[k] \in 65..90
              /\ ValueOfLetters([k \in 1..6 |-> probe.rendered[k] - 65]) = probe.input
              /\ RoomId_try_from(probe.rendered) = RoomIdOk(probe.input)

\* a string with a lower-case letter was parsed into a RoomId
C27_Witness ==
    /\ probe.fn = "RoomId"
    /\ probe.op = "try_from"
    /\ probe.result.ok
    /\ \E k \in 1..6 : probe.text[k] \in 97..122

\* C28: from_int fails on every integer from 26^6 on; every RoomId built by
\* from_int, from_random or parsing is below 26^6, so rendering it reduces
\* nothing.
C28_OutOfRangeIsRejected ==
    probe.fn = "RoomId" =>
        /\ (probe.op = "from_int" /\ probe.input >= RoomIdRange) => ~probe.result.ok
        /\ probe.result.ok =>
              /\ probe.result.id \in 0..(RoomIdRange - 1)
              /\ probe.result.id % RoomIdRange = probe.result.id
              /\ RoomId_into_loop(probe.result.id, 0, <<>>)
                    = RoomId_into_loop(probe.result.id % RoomIdRange, 0, <<>>)

\* from_int was called on 26^6 and panicked
C28_Witness ==
    /\ probe.fn = "RoomId"
    /\ probe.op = "from_int"
    /\ probe.input = RoomIdRange
    /\ ~probe.result.ok

(***************************************************************************)
(* One room subscription of the worker                                     *)
(* (zend-worker/src/websocket_api_handlers.rs:11-25, 70-122, 151-170): the  *)
(* task spawned by subscribe_to_room reads the socket to the Room actor.    *)
(* The Room actor is not part of the worker: what its socket delivers is    *)
(* any event.                                                               *)
(***************************************************************************)
MaxRoomEvents == 4

\* FromRoomMessage (websocket_api_handlers.rs:11-25)
FromRoomMessage(message_type, sender_id, nonce, data, subscription_id) ==
    [message_type |-> message_type, sender_id |-> sender_id, nonce |-> nonce,
     data |-> data, subscription_id |-> subscription_id]

FromRoomClose == FromRoomMessage("close", NoKey, Nonce(0, 0), "none", 0)

FromRoomData(sender_id, nonce, data) == FromRoomMessage("data", sender_id, nonce, data, 0)

FromRoomSubscriptionId(subscription_id) ==
    FromRoomMessage("subscription_id", NoKey, Nonce(0, 0), "none", subscription_id)

\* w::WebsocketEvent and the stream's errors (websocket_api_handlers.rs:82-100)
RoomEvent(kind, parses, message) == [kind |-> kind, parses |-> parses, message |-> message]

RoomEvents ==
    {RoomEvent("text", TRUE, message) :
        message \in {FromRoomClose, FromRoomSubscriptionId(7),
                     FromRoomData("k1", Nonce(0, T0), "d1"),
                     FromRoomData("k2", Nonce(1, T0), "d2")}}
        \cup {RoomEvent("text", FALSE, FromRoomClose),
              RoomEvent("binary", FALSE, FromRoomClose),
              RoomEvent("close", FALSE, FromRoomClose),
              RoomEvent("error", FALSE, FromRoomClose)}

\* a text that parses into a data message
IsData(event) == event.kind = "text" /\ event.parses /\ event.message.message_type = "data"

\* what a parsed message makes of the loop, a close message going unnoticed
room_message_outcome_never_closes(message) ==
    IF message.message_type = "data" THEN "forward" ELSE "continue"

\* match message (websocket_api_handlers.rs:102-109)
room_message_outcome(message) ==
    CASE message.message_type = "close" -> "close"
      [] message.message_type = "data" -> "forward"
      [] OTHER -> "continue"

\* one turn of the loop of subscriber_background_future
\* (websocket_api_handlers.rs:82-120): whether the loop goes on, the
\* future's result once it does not, what is sent to the client and whether
\* room_client.close is called
subscriber_turn(event, subscription_id, room_id) ==
    LET turn(pc, result, send, closes) ==
            [pc |-> pc, result |-> result, send |-> send, closes |-> closes]
    IN  CASE event.kind \in {"error", "close", "binary"} -> turn("done", "ok", <<>>, FALSE)
          [] event.kind = "text" /\ ~event.parses -> turn("done", "err", <<>>, FALSE)
          [] OTHER ->
                LET outcome == room_message_outcome(event.message)
                IN  CASE outcome = "close" -> turn("done", "ok", <<>>, TRUE)
                      [] outcome = "forward" ->
                            turn("await_event", "none",
                                 <<SubscriptionData(subscription_id, room_id,
                                                    event.message.sender_id,
                                                    event.message.nonce,
                                                    event.message.data)>>,
                                 FALSE)
                      [] OTHER -> turn("await_event", "none", <<>>, FALSE)

\* the spawned task once the future has ended (websocket_api_handlers.rs:162-169)
subscriber_ended(result) == IF result = "err" THEN <<info("Closed :(")>> ELSE <<>>

\* subscribe_to_room has accepted the room's socket and spawned the task
\* (websocket_api_handlers.rs:137-172)
InitSubscriber ==
    \E subscription_id \in {1, 2}, room_id \in RoomIds :
        InitProbing([fn |-> "subscriber", subscription_id |-> subscription_id,
                     room_id |-> room_id, pc |-> "await_event", room_socket |-> "open",
                     events |-> <<>>, forwarded |-> <<>>])

\* the room's socket delivers an event to the running task
subscriber_background_future(event) ==
    /\ probe.fn = "subscriber"
    /\ probe.pc = "await_event"
    /\ Len(probe.events) < MaxRoomEvents
    /\ LET turn == subscriber_turn(event, probe.subscription_id, probe.room_id)
       IN  probe' = [probe EXCEPT
                        !.pc = turn.pc,
                        !.room_socket = IF event.kind = "close" THEN "closed"
                                        ELSE IF turn.closes THEN "closing" ELSE @,
                        !.events = Append(@, event),
                        !.forwarded = @ \o nfsendj(socket, turn.send)
                                        \o nfsendj(socket, subscriber_ended(turn.result))]
    /\ UNCHANGED <<now, socket, tasks, sent, ledger, rooms>>
    /\ UNCHANGED client_vars

\* the room's socket, not yet closed by the room, delivers an event after the
\* task has ended
RoomEventUnread(event) ==
    /\ probe.fn = "subscriber"
    /\ probe.pc = "done"
    /\ probe.room_socket # "closed"
    /\ Len(probe.events) < MaxRoomEvents
    /\ probe' = [probe EXCEPT !.events = Append(@, event),
                              !.room_socket = IF event.kind = "close" THEN "closed" ELSE @]
    /\ UNCHANGED <<now, socket, tasks, sent, ledger, rooms>>
    /\ UNCHANGED client_vars

NextSubscriber ==
    \/ \E event \in RoomEvents : subscriber_background_future(event)
    \/ \E event \in RoomEvents : RoomEventUnread(event)
    \/ WsClose

SpecSubscriber == InitSubscriber /\ [][NextSubscriber]_vars

\* the SubscriptionData of the data messages among events, in their order
RECURSIVE ForwardsOf(_, _, _)
ForwardsOf(events, subscription_id, room_id) ==
    IF events = <<>>
    THEN <<>>
    ELSE LET event == Head(events)
             rest == ForwardsOf(Tail(events), subscription_id, room_id)
         IN  IF IsData(event)
             THEN <<SubscriptionData(subscription_id, room_id, event.message.sender_id,
                                     event.message.nonce, event.message.data)>> \o rest
             ELSE rest

EndsForwarding(event) ==
    \/ event.kind \in {"close", "error", "binary"}
    \/ event.kind = "text" /\ ~event.parses
    \/ event.kind = "text" /\ event.parses /\ event.message.message_type = "close"

\* the events before the first one that ends the forwarding
RECURSIVE Before(_)
Before(events) ==
    IF events = <<>> \/ EndsForwarding(Head(events))
    THEN <<>>
    ELSE <<Head(events)>> \o Before(Tail(events))

MaxOwners == 2

InitHandles == InitProbing([fn |-> "handles", owners |-> 1])

\* Clone for WsApiClient (wsclient.rs:346-355), of a handle an owner holds
Clone ==
    /\ probe.fn = "handles"
    /\ probe.owners \in 1..(MaxOwners - 1)
    /\ clones' = clones + 1
    /\ probe' = [probe EXCEPT !.owners = @ + 1]
    /\ UNCHANGED <<ws, ws_state, event_subscriptions, next_event_subscription_id,
                   channels, dispatcher, observed>>
    /\ UNCHANGED <<now, socket, tasks, sent, ledger, rooms>>

\* Drop for WsApiClient (wsclient.rs:357-369), of a handle an owner holds
Drop ==
    /\ probe.fn = "handles"
    /\ probe.owners >= 1
    /\ LET dropped == WsApiClient_drop(FALSE, clones, ws)
       IN  /\ clones' = dropped.clones
           /\ ws' = dropped.ws
    /\ probe' = [probe EXCEPT !.owners = @ - 1]
    /\ UNCHANGED <<ws_state, event_subscriptions, next_event_subscription_id,
                   channels, dispatcher, observed>>
    /\ UNCHANGED <<now, socket, tasks, sent, ledger, rooms>>

NextHandles ==
    \/ DispatcherStarts
    \/ ConnectSucceedsWithin(MaxBusConnects)
    \/ FrameArrivesWithin(Pong, MaxBusFrames)
    \/ EndReceived
    \/ Clone
    \/ Drop
    \/ Len(channels) < MaxSubscriptions /\ get_event_handle(any(SubscriptionEventFilter_new))
    \/ Len(channels) < MaxSubscriptions /\ receive_events(any(SubscriptionEventFilter_new))
    \/ \E c \in 1..Len(channels) : AwaitReturns(c)
    \/ \E c \in 1..Len(channels) : DropHandle(c)

SpecHandles == InitHandles /\ [][NextHandles]_vars

\* the number of subscription handles held, each with its anonymous clone
HandlesHeld(chans) == Cardinality({c \in 1..Len(chans) : chans[c].receiver = "held"})

\* a step in which an end signal is put into the end channel
EndSignalIssued == ws'.end_channel > ws.end_channel

C23_Step ==
    /\ clones' = probe'.owners
    /\ EndSignalIssued <=> (probe.owners = 1 /\ probe'.owners = 0)
    /\ (probe'.owners = probe.owners) => (clones' = clones /\ ~EndSignalIssued)

MaxPingerChannels == 3

InitPinger ==
    InitProbing([fn |-> "handles", owners |-> 1, pc |-> "start", handle |-> 0, pings |-> 0])

\* get_event_handle / get_event_handle_timeout followed by await_event
\* (wsclient.rs:318-343, 221-245, 267-290, 104-120), as far as it runs at
\* once: the pinger is suspended at pc, or, the sender having been closed at
\* registration, gets EventsEmpty and breaks
pinger_awaits(s, event_filters, timeout, pc) ==
    LET id == s.next_event_subscription_id
        new == channel(id, "Once", event_filters, timeout, Len(observed.classified))
        c == Len(s.channels) + 1
    IN  IF clones < 1
        THEN [s EXCEPT !.channels = Append(@, [new EXCEPT !.closed = TRUE,
                                                          !.outcome = "EventsEmpty",
                                                          !.receiver = "dropped"]),
                       !.pc = "ended", !.handle = 0]
        ELSE [s EXCEPT !.channels = Append(@, new),
                       !.event_subscriptions =
                           Append(@, EventSubscription(id, event_filters, "Once", c)),
                       !.next_event_subscription_id = id + 1,
                       !.pc = pc, !.handle = c]

\* await_state(Connected) when the state is not Connected (wsclient.rs:183)
pinger_awaits_connected(s) ==
    pinger_awaits(s, connected(SubscriptionEventFilter_new), FALSE, "await_connected")

\* send_message(Ping), counted in pings, and
\* await_state_with_timeout(Reconnecting, 10 s) (wsclient.rs:189-201)
pinger_pings(s) ==
    IF ws_state = "Reconnecting"
    THEN pinger_awaits_connected([s EXCEPT !.pings = @ + 1])
    ELSE pinger_awaits([s EXCEPT !.pings = @ + 1],
                       reconnecting(SubscriptionEventFilter_new), TRUE,
                       "await_reconnecting")

\* the top of the loop (wsclient.rs:182-188)
pinger_top(s) ==
    IF ws_state = "Connected" THEN pinger_pings(s) ELSE pinger_awaits_connected(s)

\* a pinger that takes a ping timeout for a lost connection and closes the
\* socket
pinger_timed_out_closing(s) ==
    pinger_top([s EXCEPT !.ws.ws_wrap.ws = "none", !.ws.ws_copy = "none"])

\* AwaitEventError::Timeout => continue (wsclient.rs:197)
pinger_timed_out(s) == pinger_top(s)

PingerState(subscribers, chans) ==
    [event_subscriptions |-> subscribers, channels |-> chans,
     next_event_subscription_id |-> next_event_subscription_id,
     pc |-> probe.pc, handle |-> probe.handle, pings |-> probe.pings, ws |-> ws]

PingerMoves(s) ==
    /\ event_subscriptions' = s.event_subscriptions
    /\ channels' = s.channels
    /\ next_event_subscription_id' = s.next_event_subscription_id
    /\ probe' = [probe EXCEPT !.pc = s.pc, !.handle = s.handle, !.pings = s.pings]
    /\ ws' = s.ws
    /\ UNCHANGED <<ws_state, clones, dispatcher, observed>>
    /\ UNCHANGED <<now, socket, tasks, sent, ledger, rooms>>

\* the pinger task runs for the first time
PingerStarts ==
    /\ probe.fn = "handles"
    /\ probe.pc = "start"
    /\ PingerMoves(pinger_top(PingerState(event_subscriptions, channels)))

\* the handle the pinger awaits gives an event or, closed and empty,
\* EventsEmpty (wsclient.rs:104-120); the handle is dropped and the pinger
\* runs on
PingerResumes ==
    /\ probe.fn = "handles"
    /\ probe.pc \in {"await_connected", "await_reconnecting"}
    /\ Len(channels) < MaxPingerChannels
    /\ LET c == probe.handle
           event == channels[c].queue # <<>>
           got == IF event
                  THEN [channels EXCEPT ![c].received = <<channels[c].queue[1]>>,
                                        ![c].outcome = "event"]
                  ELSE [channels EXCEPT ![c].outcome = "EventsEmpty"]
           dropped == drop_handle(c, event_subscriptions, got)
           s == PingerState(dropped.event_subscriptions, dropped.channels)
       IN  /\ event \/ channels[c].closed
           /\ PingerMoves(IF ~event THEN [s EXCEPT !.pc = "ended", !.handle = 0]
                          ELSE IF probe.pc = "await_connected" THEN pinger_pings(s)
                          ELSE pinger_top(s))

\* the 10 s of await_state_with_timeout are over with nothing in the channel
\* (wsclient.rs:192-198, util.rs:4-13)
PingerTimesOut ==
    /\ probe.fn = "handles"
    /\ probe.pc = "await_reconnecting"
    /\ Len(channels) < MaxPingerChannels
    /\ LET c == probe.handle
           dropped == drop_handle(c, event_subscriptions,
                                  [channels EXCEPT ![c].outcome = "Timeout"])
       IN  /\ channels[c].queue = <<>> /\ ~channels[c].closed
           /\ PingerMoves(pinger_timed_out(PingerState(dropped.event_subscriptions,
                                                       dropped.channels)))

NextPinger ==
    \/ DispatcherStarts
    \/ SleepElapses
    \/ ConnectSucceedsWithin(MaxBusConnects)
    \/ ConnectFailsWithin("WsErr", MaxConnectionFailures)
    \/ StreamEndsWithin("drop", MaxCloses)
    \/ EndReceived
    \/ end
    \/ Drop
    \/ PingerStarts
    \/ PingerResumes
    \/ PingerTimesOut

SpecPinger == InitPinger /\ [][NextPinger]_vars

\* the pinger awaits, without a timeout, a handle whose channel is empty and
\* open
PingerWaits ==
    /\ probe.pc = "await_connected"
    /\ channels[probe.handle].queue = <<>>
    /\ ~channels[probe.handle].closed

\* C24: once the event handler task has stopped after the end signal, it has
\* emitted one Ended event and closed the channel of every subscription, and
\* the pinger has stopped or is about to: it does not wait for a channel
\* that nothing will ever fill or close.
C24_EndStopsBothTasks ==
    (probe.fn = "handles" /\ dispatcher = "done") =>
        /\ Cardinality({k \in 1..Len(observed.classified) :
                            observed.classified[k].kind = "Ended"}) = 1
        /\ \A i \in 1..Len(event_subscriptions) :
              channels[event_subscriptions[i].sender].closed
        /\ ~PingerWaits

(***************************************************************************)
(* add_privileged_peer and broadcast_data                                   *)
(* (zend-worker/src/websocket_api_handlers.rs:179-195, 204-220) with the    *)
(* answer of the Room actor kept: probe.answers[t] is what the Room actor   *)
(* answered to the request of task t.                                       *)
(***************************************************************************)
AckCalls(call_id) ==
    {sign(MethodCallContent("k1", Nonce(call_id, T0), m), call_id, "k1") : m \in AckHandlers}

InitAck == InitProbing([fn |-> "room_answers", answers |-> [t \in 1..MaxTasks |-> "none"]])

\* the handler of task t resumes with the Room actor's answer and
\* handle_signed_method_call sends the reply (websocket_api_handlers.rs:193-194,
\* 218-219, websocket.rs:121-136)
AckHandlerResumes(t, answer) ==
    /\ probe.fn = "room_answers"
    /\ t \in 1..Len(tasks)
    /\ tasks[t].pc = "await_room"
    /\ tasks[t].handler \in AckHandlers
    /\ socket = "open"
    /\ answer \in RoomAnswersOf(tasks[t])
    /\ LET resumed == ack_resumed(tasks[t], answer)
       IN  /\ tasks' = [tasks EXCEPT ![t] = [resumed.task EXCEPT !.result = resumed.result]]
           /\ sent' = [sent EXCEPT ![t] = @ \o nfsendj(socket,
                            <<result_reply(CallOf(tasks[t]).call_id, resumed.result)>>)]
    /\ probe' = [probe EXCEPT !.answers[t] = answer]
    /\ UNCHANGED <<now, socket, ledger, rooms>>
    /\ UNCHANGED client_vars

NextAck ==
    \/ \E call \in AckCalls(Len(tasks) + 1) : Receive(CallFrame(call))
    \/ \E t \in 1..Len(tasks), answer \in PeerAnswers : PeerResponds(t, answer, NoRoom)
    \/ \E t \in 1..Len(tasks), answer \in {"failed", "nonbool", "true", "false"} :
            AckHandlerResumes(t, answer)

SpecAck == InitAck /\ [][NextAck]_vars

\* C40: a call of add_privileged_peer or broadcast_data is answered Ack when
\* the Room actor answered true or false, and is answered with an error,
\* not Ack, when the Room actor's answer is no boolean.
C40_NonBooleanIsReportedAsFailure ==
    probe.fn = "room_answers" =>
        \A t \in TaskIds :
            (tasks[t].handler \in AckHandlers /\ probe.answers[t] # "none") =>
                /\ Len(ReturnsOf(t)) = 1
                /\ probe.answers[t] \in {"true", "false"} =>
                      /\ ReturnsOf(t)[1].return_type = "success"
                      /\ ReturnsOf(t)[1].success = Ack
                /\ probe.answers[t] = "nonbool" => ReturnsOf(t)[1].return_type = "error"

(***************************************************************************)
(* The order of the checks of check_signed_method_call                      *)
(* (zend-worker/src/websocket.rs:49-86), under Spec.                        *)
(***************************************************************************)
\* the Peer actor was sent check_nonce_is_used for the call of task t
PeerQueried(t) == tasks[t].pc = "await_peer" \/ tasks[t].peer_answer # "none"

\* C36: the Peer actor is queried only for a call whose signature and whose
\* timestamp validated; a call with an invalid signature is rejected for its
\* signature whatever its timestamp is, and one with an out-of-window
\* timestamp is rejected without a query; every nonce a ledger holds is the
\* nonce of a queried call of that ledger's signer.
C36_LedgerQueriedAfterBothChecks ==
    /\ \A t \in TaskIds :
          LET call == CallOf(tasks[t])
              content == call.signed_call.call
          IN  /\ PeerQueried(t) =>
                    /\ IsCall(t)
                    /\ SignedByCaller(call)
                    /\ InWindow(content.nonce.timestamp, now)
              /\ (IsCall(t) /\ ~ SignedByCaller(call)) =>
                    (tasks[t].cause = "bad_signature" /\ ~ PeerQueried(t))
              /\ (IsCall(t) /\ SignedByCaller(call)
                    /\ ~ InWindow(content.nonce.timestamp, now)) =>
                    (tasks[t].cause = "timestamp" /\ ~ PeerQueried(t))
    /\ \A k \in Keys :
          \A nonce \in ledger[k] :
              \E t \in TaskIds :
                  /\ IsCall(t) /\ PeerQueried(t)
                  /\ ContentOf(tasks[t]).caller_id = k
                  /\ ContentOf(tasks[t]).nonce = nonce

\* a call with a wrong signature and a stale timestamp was rejected for its
\* signature, a call of the same caller was queried and recorded, and the
\* ledger holds nothing else
C36_Witness ==
    \E t1, t2 \in TaskIds :
        /\ IsCall(t1) /\ ~ SignedByCaller(CallOf(tasks[t1]))
        /\ ~ InWindow(ContentOf(tasks[t1]).nonce.timestamp, now)
        /\ tasks[t1].cause = "bad_signature"
        /\ IsCall(t2) /\ tasks[t2].peer_answer = "false"
        /\ ContentOf(tasks[t2]).caller_id = ContentOf(tasks[t1]).caller_id
        /\ ledger[ContentOf(tasks[t2]).caller_id] = {ContentOf(tasks[t2]).nonce}

(***************************************************************************)
(* subscribe_to_room from the Room actor's answer on                        *)
(* (zend-worker/src/websocket_api_handlers.rs:136-172) together with the    *)
(* reply of handle_signed_method_call (websocket.rs:121-136) and the task   *)
(* it spawns.  probe.buffered holds what the room's socket has delivered    *)
(* and nobody has read yet, probe.wire what was sent to the client, in      *)
(* order.  The Room actor may send as soon as it has answered.              *)
(***************************************************************************)
SubscribeRoomEvents ==
    {RoomEvent("text", TRUE, FromRoomData("k1", Nonce(0, T0), "d1")),
     RoomEvent("text", TRUE, FromRoomData("k2", Nonce(1, T0), "d2")),
     RoomEvent("text", TRUE, FromRoomClose),
     RoomEvent("text", FALSE, FromRoomClose),
     RoomEvent("close", FALSE, FromRoomClose)}

\* a spawn that polls the new task before it returns
spawn_local_polls_at_once == TRUE

\* wasm_bindgen_futures::spawn_local (websocket_api_handlers.rs:151): the
\* task is queued and first polled after the spawning task has suspended or
\* ended
spawn_local_polls == FALSE

\* the handler task is suspended in stub.fetch_with_request(request).await
\* (websocket_api_handlers.rs:136); the Room actor's answer is on its way
InitSubscribe ==
    \E answer \in SubscribeAnswers, has_socket \in BOOLEAN, call_id \in {1, 2} :
        InitProbing([fn |-> "subscribe", answer |-> answer, has_socket |-> has_socket,
                     call_id |-> call_id, room_id |-> "AAAAAA", subscription_id |-> 0,
                     handler |-> "await_room", forwarder |-> "none", delivered |-> 0,
                     early |-> FALSE, buffered |-> <<>>, wire |-> <<>>])

\* the room's socket delivers an event
RoomDelivers(event) ==
    /\ probe.fn = "subscribe"
    /\ probe.answer = "subscribed" /\ probe.has_socket
    /\ probe.delivered < MaxRoomEvents
    /\ \A k \in 1..Len(probe.buffered) : probe.buffered[k].kind # "close"
    /\ probe' = [probe EXCEPT !.buffered = Append(@, event),
                              !.delivered = @ + 1,
                              !.early = @ \/ probe.handler = "await_room"]
    /\ UNCHANGED <<now, socket, tasks, sent, ledger, rooms>>
    /\ UNCHANGED client_vars

\* one turn of the spawned task on the event at the head of the socket
\* (websocket_api_handlers.rs:82-120, 162-169)
ForwarderTurn(p) ==
    LET turn == subscriber_turn(Head(p.buffered), p.subscription_id, p.room_id)
    IN  [p EXCEPT !.forwarder = turn.pc,
                  !.buffered = Tail(@),
                  !.wire = @ \o nfsendj(socket, turn.send)
                             \o nfsendj(socket, subscriber_ended(turn.result))]

\* the fetch returns: subscribe_to_room reads the header, accepts the socket,
\* spawns the task and returns, and handle_signed_method_call sends the
\* return, all without suspending
SubscribeResumes ==
    /\ probe.fn = "subscribe"
    /\ probe.handler = "await_room"
    /\ LET resumed == subscribe_to_room_resumed([pc |-> "await_room"], probe.answer)
           spawns == probe.answer = "subscribed" /\ probe.has_socket
           spawned == [probe EXCEPT
                          !.handler = "done",
                          !.subscription_id = IF resumed.result.tag = "Ok"
                                              THEN resumed.result.success.subscription_id
                                              ELSE 0,
                          !.forwarder = IF spawns THEN "await_event" ELSE "none"]
           polled == IF spawns /\ spawn_local_polls /\ spawned.buffered # <<>>
                     THEN ForwarderTurn(spawned)
                     ELSE spawned
       IN  probe' = [polled EXCEPT
                        !.wire = @ \o nfsendj(socket,
                                     <<result_reply(probe.call_id, resumed.result)>>)]
    /\ UNCHANGED <<now, socket, tasks, sent, ledger, rooms>>
    /\ UNCHANGED client_vars

\* the spawned task reads the next event of the room's socket
ForwarderRuns ==
    /\ probe.fn = "subscribe"
    /\ probe.forwarder = "await_event"
    /\ probe.buffered # <<>>
    /\ probe' = ForwarderTurn(probe)
    /\ UNCHANGED <<now, socket, tasks, sent, ledger, rooms>>
    /\ UNCHANGED client_vars

NextSubscribe ==
    \/ \E event \in SubscribeRoomEvents : RoomDelivers(event)
    \/ SubscribeResumes
    \/ ForwarderRuns
    \/ WsClose

SpecSubscribe == InitSubscribe /\ [][NextSubscribe]_vars

\* C37: every SubscriptionData sent to the client comes after the successful
\* MethodCallReturn of the subscribe_to_room call that announces its
\* subscription_id.
C37_ReturnBeforeData ==
    probe.fn = "subscribe" =>
        \A j \in 1..Len(probe.wire) :
            probe.wire[j].message_type = "subscription_data" =>
                \E i \in 1..(j - 1) :
                    /\ probe.wire[i].message_type = "method_call_return"
                    /\ probe.wire[i].return_type = "success"
                    /\ probe.wire[i].call_id = probe.call_id
                    /\ probe.wire[i].success.kind = "subscribe_to_room"
                    /\ probe.wire[i].success.subscription_id = probe.wire[j].subscription_id

\* the room's socket had delivered a data message before the handler resumed,
\* and the client was sent the return and then the data
C37_Witness ==
    /\ probe.fn = "subscribe"
    /\ probe.early
    /\ Len(probe.wire) >= 2
    /\ probe.wire[1].message_type = "method_call_return"
    /\ probe.wire[2].message_type = "subscription_data"


(***************************************************************************)
(* The draw of a candidate room id in create_room                          *)
(* (zend-common/src/util.rs:4-9, api.rs:158-161,                           *)
(* zend-worker/src/websocket_api_handlers.rs:50-54).  getrandom fills four *)
(* bytes or fails; the bytes drawn here are one byte b four times, the u32 *)
(* b * 0x01010101, so that random as f64 / u32::MAX as f64 is the f64      *)
(* nearest to b/255 (0xFFFFFFFF = 255 * 0x01010101), and 1.0 for b = 255.  *)
(***************************************************************************)
EntropyFailed == [ok |-> FALSE, byte |-> 0]

Entropy(byte) == [ok |-> TRUE, byte |-> byte]

EntropyProbes == {EntropyFailed} \cup {Entropy(byte) : byte \in 0..255}

\* util::math_random (util.rs:4-9) on the outcome of getrandom
math_random(entropy) ==
    IF entropy.ok
    THEN [ok |-> TRUE, random |-> [kind |-> "of_255", k |-> entropy.byte, m |-> 0]]
    ELSE [ok |-> FALSE, random |-> [kind |-> "nan", k |-> 0, m |-> 0]]

\* the candidate of create_room (websocket_api_handlers.rs:51-53): `?` returns
\* the internal error when there is no entropy
tmp_id(entropy) ==
    IF math_random(entropy).ok
    THEN RoomId_from_random(math_random(entropy).random)
    ELSE RoomIdErr("internal_error")

InitEntropy == InitProbing(RoomIdProbe("none", <<>>, EntropyFailed, RoomIdErr("none")))

\* create_room draws one candidate
DrawCandidate(entropy) ==
    /\ probe.fn = "RoomId"
    /\ probe.op = "none"
    /\ probe' = RoomIdProbe("draw", <<>>, entropy, tmp_id(entropy))
    /\ UNCHANGED <<now, socket, tasks, sent, ledger, rooms>>
    /\ UNCHANGED client_vars

NextEntropy == \E entropy \in EntropyProbes : DrawCandidate(entropy)

SpecEntropy == InitEntropy /\ [][NextEntropy]_vars

\* C34: for every value the entropy source returns, math_random is below 1.0
\* and from_random gives an id in [0, 26^6) without failing its assertion;
\* drawing a candidate never aborts.
C34_DrawNeverAborts ==
    (probe.fn = "RoomId" /\ probe.op = "draw") =>
        /\ probe.result.error # "panicked"
        /\ probe.input.ok =>
              /\ math_random(probe.input).random.k < 255
              /\ probe.result.ok
              /\ probe.result.id \in 0..(RoomIdRange - 1)

(***************************************************************************)
(* AppClient after idle periods (zend-leptos/src/appclient.rs:335-365):    *)
(* the clock reads the start, a second later, or just after the 5 minutes  *)
(* a server still accepts (api.rs:382-386).                                *)
(***************************************************************************)
IdleReadings == {ToU64(T0), ToU64(T0 + 1), ToU64(T0 + PastWindow + 1)}

InitIdle ==
    \E time \in IdleReadings, overflow_checks \in BOOLEAN :
        InitProbing([fn |-> "AppClient", next_nonce |-> Nonce_new(time), last_time |-> time,
                     next_call_id |-> 0, overflow_checks |-> overflow_checks,
                     panicked |-> FALSE, readings |-> <<>>, issued |-> <<>>])

NextIdle ==
    \E method_name \in {"subscribe_to_room", "broadcast_data"}, sys_time \in IdleReadings :
        make_server_method_call(method_name, sys_time)

SpecIdle == InitIdle /\ [][NextIdle]_vars

\* C35: the nonce of the call made last carries the time read (and clamped)
\* during that call, which is last_time right after it, and a server whose
\* clock reads that time accepts the timestamp.
C35_NonceCarriesTimeOfCall ==
    (probe.fn = "AppClient" /\ ~probe.panicked /\ Len(probe.issued) > 0) =>
        /\ IssuedNonce(Len(probe.issued)).timestamp = probe.last_time
        /\ validate_timestamp(IssuedNonce(Len(probe.issued)).timestamp, probe.last_time)

(***************************************************************************)
(* Frames that are no ServerToClientMessage (zend-leptos/src/wsclient.rs:   *)
(* 371-394): a connection that comes up, text frames that parse and that   *)
(* do not, binary frames, and subscribers to everything, one-shot and      *)
(* persistent.                                                             *)
(***************************************************************************)
MaxUnparsedFrames == 2

MaxFrameSubscriptions == 2

UnparsedFrames == {GarbageTextFrame, BinaryFrame}

NextFrames ==
    \/ DispatcherStarts
    \/ ConnectSucceedsWithin(MaxBusConnects)
    \/ \E frame \in UnparsedFrames \cup {Pong} : FrameArrivesWithin(frame, MaxUnparsedFrames)
    \/ Len(channels) < MaxFrameSubscriptions /\ get_event_handle(any(SubscriptionEventFilter_new))
    \/ Len(channels) < MaxFrameSubscriptions /\ receive_events(any(SubscriptionEventFilter_new))
    \/ Len(channels) < MaxFrameSubscriptions
           /\ get_event_handle(pong_filter(SubscriptionEventFilter_new))
    \/ \E c \in 1..Len(channels) : Take(c)
    \/ \E c \in 1..Len(channels) : CloseReceiver(c)

SpecFrames == Init /\ [][NextFrames]_vars

\* a step in which a text frame that does not parse, or a binary frame, arrives
C33_Step ==
    (\E frame \in UnparsedFrames : FrameArrivesWithin(frame, MaxUnparsedFrames)) =>
        /\ UNCHANGED <<ws_state, event_subscriptions, channels, next_event_subscription_id>>
        /\ observed'.classified = observed.classified
        /\ ws'.ws_copy = ws.ws_copy /\ ws'.ws_wrap = ws.ws_wrap

\* C33: a text frame that is no ServerToClientMessage, and every binary
\* frame, is dropped: no subscriber is sent an event, no one-shot subscription
\* is used up, and the connection state and the registry stay as they are.
C33_UnparsedFramesAreDropped == [][C33_Step]_vars

\* two such frames have arrived and nothing else, while a one-shot and a
\* persistent subscriber to everything are registered and have got nothing
C33_Witness ==
    /\ observed.frames = 2
    /\ \A i \in 1..Len(observed.classified) : observed.classified[i].kind # "ApiMessage"
    /\ Len(event_subscriptions) = 2
    /\ \E i, j \in 1..2 :
          /\ event_subscriptions[i].subscriber_type = "Once"
          /\ event_subscriptions[j].subscriber_type = "Persistent"
          /\ event_subscriptions[i].event_filters = any(SubscriptionEventFilter_new)
          /\ event_subscriptions[j].event_filters = any(SubscriptionEventFilter_new)
    /\ \A c \in 1..Len(channels) : channels[c].queue = <<>> /\ ~channels[c].closed

(***************************************************************************)
(* Sending (zend-leptos/src/wsclient.rs:212-219, 636-641): callers pass     *)
(* messages to send_message around a connection that comes up, drops,      *)
(* comes up again and is ended.  probe.calls has, for every call, the      *)
(* ws_state it was made in and its result; probe.transmitted the calls     *)
(* whose message went out on a socket, in order.                           *)
(***************************************************************************)
MaxSendConnects == 2

MaxSends == 2

\* a send that does not look for a socket
WsRefCellWrap_send_always(w, accepted) == accepted

\* WsRefCellWrap::send (wsclient.rs:636-641): whether the message goes out.
\* The result of send_with_str is thrown away; the browser may not accept
\* the message when the socket is closing already.
WsRefCellWrap_send(w, accepted) == w.ws_copy # "none" /\ accepted

InitSend == InitProbing([fn |-> "send", calls |-> <<>>, transmitted |-> <<>>])

\* WsApiClient::send_message (wsclient.rs:212-219); serde_json::to_string of
\* a ClientToServerMessage gives Ok
send_message(accepted) ==
    /\ probe.fn = "send"
    /\ Len(probe.calls) < MaxSends
    /\ probe' = [probe EXCEPT
                    !.calls = Append(@, [ws_state |-> ws_state, result |-> "Ok"]),
                    !.transmitted = IF WsRefCellWrap_send(ws, accepted)
                                    THEN Append(@, Len(probe.calls) + 1)
                                    ELSE @]
    /\ UNCHANGED <<now, socket, tasks, sent, ledger, rooms>>
    /\ UNCHANGED client_vars

NextSend ==
    \/ DispatcherStarts
    \/ ConnectSucceedsWithin(MaxSendConnects)
    \/ StreamEndsWithin("drop", MaxCloses)
    \/ EndReceived
    \/ ws.end_channel = 0 /\ end
    \/ \E accepted \in BOOLEAN : send_message(accepted)

SpecSend == InitSend /\ [][NextSend]_vars

\* C39: a message goes out only if it was passed while the state was
\* Connected, and at most once; one passed while Reconnecting or Ended has
\* not gone out in any later state, whatever happened to the connection
\* since; and send_message returned Ok.
C39_SendsOnlyWhileConnected ==
    probe.fn = "send" =>
        /\ \A k \in 1..Len(probe.transmitted) :
              /\ probe.calls[probe.transmitted[k]].ws_state = "Connected"
              /\ \A j \in 1..Len(probe.transmitted) :
                    probe.transmitted[j] = probe.transmitted[k] => j = k
        /\ \A i \in 1..Len(probe.calls) :
              /\ probe.calls[i].result = "Ok"
              /\ probe.calls[i].ws_state \in {"Reconnecting", "Ended"} =>
                    \A k \in 1..Len(probe.transmitted) : probe.transmitted[k] # i

\* a message was passed while the connection was down and one after it came
\* up again: only the second has gone out
C39_Witness ==
    /\ probe.fn = "send"
    /\ Len(probe.calls) = 2
    /\ probe.calls[1].ws_state = "Reconnecting"
    /\ probe.calls[2].ws_state = "Connected"
    /\ observed.connects = 2
    /\ probe.transmitted = <<2>>

(***************************************************************************)
(* The event stream (zend-leptos/src/wsclient.rs:371-394, 568-613,          *)
(* 642-681): a connection that comes up, gives frames, is lost, comes up   *)
(* again and is ended, and a persistent subscriber to everything that      *)
(* registers at any time and takes its events.                             *)
(***************************************************************************)
MaxStreamConnects == 2

MaxStreamFrames == 2

NextStream ==
    \/ DispatcherStarts
    \/ SleepElapses
    \/ ConnectSucceedsWithin(MaxStreamConnects)
    \/ ConnectFailsWithin("WsErr", MaxConnectionFailures)
    \/ \E frame \in {Pong, GarbageTextFrame} : FrameArrivesWithin(frame, MaxStreamFrames)
    \/ StreamEndsWithin("drop", MaxCloses)
    \/ CloseTimeoutWithin(MaxCloses)
    \/ EndReceived
    \/ ws.end_channel = 0 /\ end
    \/ Len(channels) < 1 /\ receive_events(any(SubscriptionEventFilter_new))
    \/ \E c \in 1..Len(channels) : Take(c)

SpecStream == Init /\ [][NextStream]_vars

\* the kind of the last connection event among the first i events of s
LastConnectionKind(s, i) ==
    LET at == {j \in 1..i : s[j].kind \in WebSocketState}
    IN  IF at = {} THEN "none"
        ELSE s[CHOOSE j \in at : \A k \in at : k <= j].kind

\* ApiMessage events come after a Connected event and before the next
\* Reconnecting or Ended event, and two Connected events have a Reconnecting
\* event between them
StreamOrdered(s) ==
    /\ \A i \in 1..Len(s) :
          s[i].kind = "ApiMessage" => LastConnectionKind(s, i - 1) = "Connected"
    /\ \A i, j \in 1..Len(s) :
          (i < j /\ s[i].kind = "Connected" /\ s[j].kind = "Connected") =>
              \E k \in (i + 1)..(j - 1) : s[k].kind = "Reconnecting"

\* ws_state is the kind of the last connection event dispatched, and there
\* is a socket handle to send on exactly when it is Connected
StateFollowsStream ==
    /\ ws_state = IF LastConnectionKind(observed.classified, Len(observed.classified)) = "none"
                  THEN "Reconnecting"
                  ELSE LastConnectionKind(observed.classified, Len(observed.classified))
    /\ ws.ws_copy # "none" <=> ws_state = "Connected"

\* channel c belongs to a subscriber to everything
SubscribedToAny(c) ==
    /\ channels[c].subscriber_type = "Persistent"
    /\ channels[c].event_filters = any(SubscriptionEventFilter_new)

\* C38 as stated: what a subscriber to everything is sent is ordered in that
\* way, ws_state follows the connection events and the socket handle follows
\* ws_state.
C38_SubscriberStreamOrdered ==
    /\ \A c \in 1..Len(channels) : SubscribedToAny(c) => StreamOrdered(Delivered(c))
    /\ StateFollowsStream

\* C38, amended: the events dispatched are ordered in that way; a subscriber
\* to everything is sent the events dispatched since it registered, as long
\* as no more of them were dispatched than its channel holds; ws_state
\* follows the connection events and the socket handle follows ws_state.
C38_DispatchedStreamOrdered ==
    /\ StreamOrdered(observed.classified)
    /\ \A c \in 1..Len(channels) :
          (SubscribedToAny(c) /\ Len(MatchingSince(c)) <= ChannelBuffer + 1) =>
              Delivered(c) = SubSeq(observed.classified, channels[c].since + 1,
                                    Len(observed.classified))
    /\ StateFollowsStream

\* a subscriber registered while the state was Connected and was sent a pong
\* first; the connection was then lost and came up again
C38_Witness ==
    /\ \E c \in 1..Len(channels) :
          /\ SubscribedToAny(c)
          /\ channels[c].since > 0
          /\ Len(Delivered(c)) >= 3
          /\ Delivered(c)[1].kind = "ApiMessage"
    /\ observed.connects = 2
    /\ ws_state = "Connected"

\* a step of the pinger task
PingerStep == PingerStarts \/ PingerResumes \/ PingerTimesOut

\* a step of the pinger leaves the connection alone and sends one Ping at
\* most; after a timeout in state Connected it has sent the next Ping and
\* waits, for 10 s again, for a Reconnecting event (it stops instead when
\* the last owner of the client is gone)
C32_Step ==
    PingerStep =>
        /\ UNCHANGED <<ws, ws_state, dispatcher, clones>>
        /\ probe'.pings \in {probe.pings, probe.pings + 1}
        /\ (PingerTimesOut /\ ws_state = "Connected") =>
              /\ probe'.pings = probe.pings + 1
              /\ probe'.pc = IF clones < 1 THEN "ended" ELSE "await_reconnecting"
              /\ clones >= 1 =>
                    /\ channels'[probe'.handle].timeout
                    /\ channels'[probe'.handle].event_filters
                          = reconnecting(SubscriptionEventFilter_new)
                    /\ channels'[probe'.handle].queue = <<>>

\* C32: the pinger only pings and waits: while Connected it sends a Ping and
\* waits up to 10 s for a Reconnecting event, and after a timeout it sends
\* the next Ping; no step of it, a timeout included, changes ws_state, the
\* socket or retry_after.
C32_PingerIsAdvisory == [][C32_Step]_vars

\* the pinger has timed out and sent a second Ping, and waits again; the
\* connection is up as before
C32_Witness ==
    /\ probe.fn = "handles"
    /\ probe.pings = 2
    /\ clones = 1
    /\ probe.pc = "await_reconnecting"
    /\ \E c \in 1..Len(channels) : channels[c].outcome = "Timeout"
    /\ ws_state = "Connected"
    /\ ws.ws_wrap.ws # "none"
    /\ observed.connects = 1 /\ observed.closes = 0

(***************************************************************************)
(* Who changes the registry (zend-leptos/src/wsclient.rs:166-179, 267-299,  *)
(* 395-426).  Every action of the client is the run of one task from one   *)
(* suspension point to the next; event_subscriptions.borrow_mut() is       *)
(* called in handle_event, in the closing pass of the event handler task,  *)
(* in register_event_subscription and in unregister_event_subscription,    *)
(* none of which awaits, so every guard is dropped within the run that     *)
(* took it.                                                                *)
(***************************************************************************)
\* the entries of a registry
Entries(subscribers) == {subscribers[i] : i \in 1..Len(subscribers)}

\* the step at hand is a run of the event handler task
DispatcherRuns == dispatcher' # dispatcher \/ observed' # observed

\* the step at hand is a run of a caller (or of the pinger) that registers
CallerRegisters == Len(channels') = Len(channels) + 1

\* the channels whose handle the step at hand drops
HandlesDropped ==
    {c \in 1..Len(channels) :
        channels[c].receiver = "held" /\ channels'[c].receiver = "dropped"}

C31_Step ==
    /\ ~(DispatcherRuns /\ CallerRegisters)
    /\ ~(DispatcherRuns /\ HandlesDropped # {})
    /\ ~(CallerRegisters /\ HandlesDropped # {})
    /\ DispatcherRuns =>
          /\ Entries(event_subscriptions') \subseteq Entries(event_subscriptions)
          /\ next_event_subscription_id' = next_event_subscription_id
          /\ \A e \in Entries(event_subscriptions) \ Entries(event_subscriptions') :
                channels'[e.sender].closed \/ channels'[e.sender].receiver = "dropped"
    /\ CallerRegisters =>
          \/ /\ clones >= 1
             /\ Len(event_subscriptions') = Len(event_subscriptions) + 1
             /\ SubSeq(event_subscriptions', 1, Len(event_subscriptions)) = event_subscriptions
             /\ event_subscriptions'[Len(event_subscriptions')].id = next_event_subscription_id
             /\ event_subscriptions'[Len(event_subscriptions')].sender = Len(channels')
             /\ next_event_subscription_id' = next_event_subscription_id + 1
          \/ /\ clones < 1
             /\ UNCHANGED <<event_subscriptions, next_event_subscription_id>>
    /\ HandlesDropped # {} =>
          /\ Entries(event_subscriptions') =
                {e \in Entries(event_subscriptions) : e.sender \notin HandlesDropped}
          /\ next_event_subscription_id' = next_event_subscription_id
    /\ (~DispatcherRuns /\ ~CallerRegisters /\ HandlesDropped = {}) =>
          UNCHANGED <<event_subscriptions, next_event_subscription_id>>

====
